---- MODULE Spec2Model ----
(***************************************************************************)
(* Model of the shortint scalar-add engine and of the Degree / NoiseLevel  *)
(* bookkeeping of tfhe-rs:                                                 *)
(*   tfhe/src/shortint/engine/server_side/scalar_add.rs                    *)
(*   tfhe/src/shortint/ciphertext/mod.rs                                   *)
(*                                                                         *)
(* u64 values are stored in units of 2^55, so that 2^63 is 256 and 2^64 is *)
(* 512.  Every u64 the model handles is a multiple of                      *)
(* delta = 2^63 / (message_modulus * carry_modulus) with a power-of-two    *)
(* message_modulus * carry_modulus <= 256, hence a whole number of units:  *)
(* the arithmetic modulo 2^64 is exact.  The LWE sample is noise-free.     *)
(***************************************************************************)
EXTENDS Integers, Sequences, FiniteSets

VARIABLES
    server_key,  \* the ServerKey the engine is called with
    ct,          \* the caller's Ciphertext (the &mut / & argument)
    ct_result,   \* what the last call returned: <<c>> for Ok(c), <<>> for Ok(()) or a panic
    last,        \* record of the last engine call (operation, scalar, argument, outcome, calls made)
    misuse,      \* TRUE once an unchecked_* call was made while is_scalar_add_possible was false
    degcall,     \* record of the last Degree::after_bitxor / after_bitor / after_bitand evaluation
    shcall,      \* record of the last Degree::after_left_shift evaluation
    ncall,       \* record of the last call of the noise-level propagation test
    clonecall,   \* the two ciphertexts of Ciphertext::clone_from and what the last call did
    listcall,    \* a CompressedCiphertext, a CompactCiphertextList and what was made of them
    confcall,    \* the object and the parameters of the last is_conformant evaluation
    sercall,     \* the bytes handed to ServerKey::deserialize and what it returned
    bootstrapper, \* the boolean engine's Bootstrappers: memory, generator, computation buffers
    bcall        \* per Bootstrapper, the record of its last call

vars == <<server_key, ct, ct_result, last, misuse, degcall, shcall, ncall, clonecall, listcall,
          confcall, sercall, bootstrapper, bcall>>

----------------------------------------------------------------------------
(* Bounds of the model                                                     *)

\* the scalars tried are 0..MaxScalar and U8Max
MaxScalar == 5
\* unchecked_scalar_add is not called once the degree would pass MaxDegree
MaxDegree == 10
\* noise levels of the initial ciphertexts: 0..MaxInitNoise
MaxInitNoise == 2
\* Degree::after_* is evaluated on degrees 0..MaxDegreeArg
MaxDegreeArg == 40
\* Degree::after_left_shift is evaluated on degrees 0..MaxShiftDegree,
\* shifts 0..MaxShift and moduli 1..MaxShiftModulus
MaxShiftDegree == 12
MaxShift == 4
MaxShiftModulus == 12
\* operands of the noise-level test: degrees 0..MaxOperandDegree, noise levels 0..MaxOperandNoise
MaxOperandDegree == 3
MaxOperandNoise == 3
\* LWE containers of the clone_from model: 1..MaxLweSize elements of 1..MaxLweValue
MaxLweSize == 2
MaxLweValue == 2
\* compact lists of 1..MaxListCount ciphertexts of LWE size 2..MaxListLweSize
MaxListCount == 3
MaxListLweSize == 3
\* serialized keys: 1..MaxKeyLen bytes of 0..MaxByte
MaxKeyLen == 2
MaxByte == 1
\* LWE scalars of the boolean engine: 0..MaxBoolValue
MaxBoolValue == 1

----------------------------------------------------------------------------
(* Program constants                                                       *)

\* 2^64, the modulus of u64 arithmetic, in units of 2^55
U64Modulus == 512
\* 1_u64 << 63, in units of 2^55
TwoPow63 == 256
\* u8::MAX, the largest scalar the signatures accept
U8Max == 255
\* NoiseLevel::NOMINAL
NOMINAL == 1
\* NoiseLevel::ZERO
ZERO == 0
\* boolean::PLAINTEXT_TRUE, 1 << 29
PLAINTEXT_TRUE == 536870912
\* for scalar in 0..12 of test_noise_level_propagation
TestScalarEnd == 12
\* if scalar < 8 guards the left-shift tests
TestShiftEnd == 8

\* (message_modulus, carry_modulus) of PARAM_MESSAGE_1_CARRY_0, _1_CARRY_1, _2_CARRY_1
ParamSets ==
    { [message_modulus |-> 2, carry_modulus |-> 1],
      [message_modulus |-> 2, carry_modulus |-> 2],
      [message_modulus |-> 4, carry_modulus |-> 2] }

Scalars == (0..MaxScalar) \cup {U8Max}

----------------------------------------------------------------------------
(* Ciphertext, encoding                                                    *)

\* ServerKey: max_degree = message_modulus * carry_modulus - 1
ServerKeyOf(p) ==
    [ message_modulus |-> p.message_modulus,
      carry_modulus   |-> p.carry_modulus,
      max_degree      |-> p.message_modulus * p.carry_modulus - 1 ]

\* message_modulus * carry_modulus
FullModulus(sk) == sk.message_modulus * sk.carry_modulus

\* delta = (1_u64 << 63) / (message_modulus * carry_modulus) as u64
Delta(sk) == TwoPow63 \div FullModulus(sk)

\* <mask, secret key> of an LWE sample: 0 for the all-zero mask of a trivial
\* ciphertext, a fixed u64 for the mask of an encryption
SecretDot(mask) == IF mask = 0 THEN 0 ELSE 200

\* struct Ciphertext { ct, degree, noise_level, message_modulus, carry_modulus, pbs_order }
\* with ct: LweCiphertextOwned<u64> as its mask and its body
Ciphertext(mask, body, degree, noise_level, sk) ==
    [ mask            |-> mask,
      body            |-> body,
      degree          |-> degree,
      noise_level     |-> noise_level,
      message_modulus |-> sk.message_modulus,
      carry_modulus   |-> sk.carry_modulus,
      pbs_order       |-> "KeyswitchBootstrap" ]

\* Clone for Ciphertext: every field is copied
CloneFreshNoise(c) == [c EXCEPT !.noise_level = NOMINAL]
Clone(c) ==
    [ mask            |-> c.mask,
      body            |-> c.body,
      degree          |-> c.degree,
      noise_level     |-> c.noise_level,
      message_modulus |-> c.message_modulus,
      carry_modulus   |-> c.carry_modulus,
      pbs_order       |-> c.pbs_order ]

\* encoding of plaintext m: m * delta (mod 2^64)
Encode(sk, m) == (m * Delta(sk)) % U64Modulus

\* body - <mask, secret key> (mod 2^64)
Phase(c) == (c.body - SecretDot(c.mask)) % U64Modulus

\* decrypt_message_and_carry: the plaintext with its padding bit, in [0, 2 * message_modulus * carry_modulus)
DecryptMessageAndCarry(sk, c) == Phase(c) \div Delta(sk)

\* an encryption (mask 1) or trivial encryption (mask 0) of m
Encrypt(sk, mask, m, degree, noise_level) ==
    Ciphertext(mask, (SecretDot(mask) + Encode(sk, m)) % U64Modulus, degree, noise_level, sk)

----------------------------------------------------------------------------
(* Lookup tables and the programmable bootstrap                            *)

\* the closure |x| (scalar as u64 + x) % modulus of smart_scalar_add_assign,
\* with modulus = server_key.message_modulus.0 as u64
ScalarAddLutFnWrongModulus(sk, scalar, x) == (scalar + x) % FullModulus(sk)
ScalarAddLutFn(sk, scalar, x) == (scalar + x) % sk.message_modulus

\* maximum of a non-empty finite set of naturals
SetMax(S) == CHOOSE m \in S : \A x \in S : x <= m

\* generate_lookup_table(server_key, f): the table of f over the plaintexts
\* [0, message_modulus * carry_modulus), and the largest value it holds
GenerateLookupTable(sk, scalar) ==
    LET table == [x \in 0..(FullModulus(sk) - 1) |-> ScalarAddLutFn(sk, scalar, x)]
    IN  [ table  |-> table,
          degree |-> SetMax({table[x] : x \in DOMAIN table}) ]

\* apply_lookup_table_assign(server_key, ct, acc): the set of ciphertexts the
\* programmable bootstrap can leave in ct.  A plaintext x with a clear padding
\* bit is mapped to acc.table[x]; the table says nothing of a plaintext whose
\* padding bit is set, so any plaintext may come out.  The result is a fresh
\* encryption at noise_level NOMINAL with the table's degree.
ApplyLookupTableAssign(sk, c, acc) ==
    LET x    == DecryptMessageAndCarry(sk, c)
        outs == IF x < FullModulus(sk)
                THEN {acc.table[x]}
                ELSE 0..(2 * FullModulus(sk) - 1)
    IN  { Encrypt(sk, 1, m, acc.degree, NOMINAL) : m \in outs }

----------------------------------------------------------------------------
(* scalar_add.rs                                                           *)

\* u64::from(scalar) * delta does not fit u64
ShiftOverflows(sk, scalar) == scalar * Delta(sk) >= U64Modulus

\* lwe_ciphertext_plaintext_add_assign(&mut ct.ct, encoded_scalar):
\* the plaintext is added to the body, modulo 2^64; the mask is left alone
LwePlaintextAddAssign(c, plaintext) ==
    [c EXCEPT !.body = (c.body + plaintext) % U64Modulus]

\* is_scalar_add_possible(ct, scalar): ct.degree.0 + scalar <= max_degree
IsScalarAddPossible(sk, c, scalar) == c.degree + scalar <= sk.max_degree

\* the body of unchecked_scalar_add_assign when the multiplication wraps or fits
UncheckedScalarAddAssignClamped(sk, c, scalar) ==
    LET shift_plaintext == (scalar * Delta(sk)) % U64Modulus
        shifted == LwePlaintextAddAssign(c, shift_plaintext)
        sum == c.degree + scalar
    IN  [shifted EXCEPT !.degree = IF sum <= sk.max_degree THEN sum ELSE sk.max_degree]
UncheckedScalarAddAssignOffByOne(sk, c, scalar) ==
    LET shift_plaintext == (scalar * Delta(sk)) % U64Modulus
        shifted == LwePlaintextAddAssign(c, shift_plaintext)
    IN  [shifted EXCEPT !.degree = c.degree + scalar + 1]
UncheckedScalarAddAssignNoDegree(sk, c, scalar) ==
    LET shift_plaintext == (scalar * Delta(sk)) % U64Modulus
    IN  LwePlaintextAddAssign(c, shift_plaintext)
UncheckedScalarAddAssign(sk, c, scalar) ==
    LET shift_plaintext == (scalar * Delta(sk)) % U64Modulus
        shifted == LwePlaintextAddAssign(c, shift_plaintext)
    IN  [shifted EXCEPT !.degree = c.degree + scalar]

\* a call of unchecked_scalar_add_assign: the set of its outcomes.  When
\* u64::from(scalar) * delta overflows, the build decides: the multiplication
\* panics (overflow checks on, ct untouched) or wraps (overflow checks off).
UncheckedScalarAddAssignCall(sk, c, scalar) ==
    LET ok == [ ct      |-> UncheckedScalarAddAssign(sk, c, scalar),
                outcome |-> "Ok",
                trace   |-> <<"lwe_ciphertext_plaintext_add_assign">> ]
    IN  IF ShiftOverflows(sk, scalar)
        THEN {ok, [ct |-> c, outcome |-> "panic", trace |-> <<>>]}
        ELSE {ok}

\* a call of smart_scalar_add_assign: the set of its outcomes
SmartScalarAddAssignCallAlwaysRefresh(sk, c, scalar) ==
    LET acc == GenerateLookupTable(sk, scalar)
    IN  { [ ct      |-> [o EXCEPT !.degree = sk.message_modulus - 1],
            outcome |-> "Ok",
            trace   |-> <<"generate_lookup_table", "apply_lookup_table_assign">> ] :
          o \in ApplyLookupTableAssign(sk, c, acc) }
SmartScalarAddAssignCallRefreshThenAdd(sk, c, scalar) ==
    IF IsScalarAddPossible(sk, c, scalar)
    THEN { [r EXCEPT !.trace = <<"unchecked_scalar_add_assign">> \o r.trace] :
             r \in UncheckedScalarAddAssignCall(sk, c, scalar) }
    ELSE LET acc == GenerateLookupTable(sk, 0)
         IN  { [r EXCEPT !.trace = <<"generate_lookup_table", "apply_lookup_table_assign",
                                      "unchecked_scalar_add_assign">> \o r.trace] :
               r \in UNION { UncheckedScalarAddAssignCall(
                                 sk, [o EXCEPT !.degree = sk.message_modulus - 1], scalar) :
                             o \in ApplyLookupTableAssign(sk, c, acc) } }
SmartScalarAddAssignCallDegreePlusScalar(sk, c, scalar) ==
    IF IsScalarAddPossible(sk, c, scalar)
    THEN { [r EXCEPT !.trace = <<"unchecked_scalar_add_assign">> \o r.trace] :
             r \in UncheckedScalarAddAssignCall(sk, c, scalar) }
    ELSE LET acc == GenerateLookupTable(sk, scalar)
         IN  { [ ct      |-> [o EXCEPT !.degree = sk.message_modulus - 1 + scalar],
                 outcome |-> "Ok",
                 trace   |-> <<"generate_lookup_table", "apply_lookup_table_assign">> ] :
               o \in ApplyLookupTableAssign(sk, c, acc) }
SmartScalarAddAssignCallMaxDegree(sk, c, scalar) ==
    IF IsScalarAddPossible(sk, c, scalar)
    THEN { [r EXCEPT !.trace = <<"unchecked_scalar_add_assign">> \o r.trace] :
             r \in UncheckedScalarAddAssignCall(sk, c, scalar) }
    ELSE LET acc == GenerateLookupTable(sk, scalar)
         IN  { [ ct      |-> [o EXCEPT !.degree = sk.max_degree],
                 outcome |-> "Ok",
                 trace   |-> <<"generate_lookup_table", "apply_lookup_table_assign">> ] :
               o \in ApplyLookupTableAssign(sk, c, acc) }
SmartScalarAddAssignCall(sk, c, scalar) ==
    IF IsScalarAddPossible(sk, c, scalar)
    THEN { [r EXCEPT !.trace = <<"unchecked_scalar_add_assign">> \o r.trace] :
             r \in UncheckedScalarAddAssignCall(sk, c, scalar) }
    ELSE LET acc == GenerateLookupTable(sk, scalar)
         IN  { [ ct      |-> [o EXCEPT !.degree = sk.message_modulus - 1],
                 outcome |-> "Ok",
                 trace   |-> <<"generate_lookup_table", "apply_lookup_table_assign">> ] :
               o \in ApplyLookupTableAssign(sk, c, acc) }

----------------------------------------------------------------------------
(* Initial state and the engine calls                                      *)

NoCall(c) ==
    [ op |-> "none", scalar |-> 0, pre |-> c, outcome |-> "Ok", trace |-> <<>> ]

NoDegCall == [ op |-> "none", self |-> 0, other |-> 0, result |-> 0 ]

\* nothing evaluated yet by the parts of the model a specification leaves idle
NoShiftCall == [ op |-> "none" ]
NoNoiseCall == [ op |-> "none" ]
NoCloneCall == [ op |-> "none" ]
NoListCall == [ op |-> "none" ]
NoConfCall == [ op |-> "none" ]
NoSerCall == [ op |-> "none" ]
NoBootstrapper == <<>>
NoBootCall == <<>>

\* the boolean engine and the conformance and serialization checks are idle
IdleBoolean ==
    /\ confcall = NoConfCall
    /\ sercall = NoSerCall
    /\ bootstrapper = NoBootstrapper
    /\ bcall = NoBootCall

\* the ciphertexts a client or an earlier computation hands to the engine: a
\* plaintext p <= degree <= max_degree; a trivial ciphertext (all-zero mask)
\* iff the noise level is ZERO
InitCiphertexts(sk) ==
    { Encrypt(sk, IF n = ZERO THEN 0 ELSE 1, p, d, n) :
        <<p, d, n>> \in { t \in (0..sk.max_degree) \X (0..sk.max_degree) \X (0..MaxInitNoise) :
                            t[1] <= t[2] } }

Init ==
    /\ server_key \in { ServerKeyOf(p) : p \in ParamSets }
    /\ ct \in InitCiphertexts(server_key)
    /\ ct_result = <<>>
    /\ last = NoCall(ct)
    /\ misuse = FALSE
    /\ degcall = NoDegCall
    /\ shcall = NoShiftCall
    /\ ncall = NoNoiseCall
    /\ clonecall = NoCloneCall
    /\ listcall = NoListCall
    /\ IdleBoolean

Running == last.outcome = "Ok"

\* unchecked_scalar_add(server_key, &ct, scalar): clone, assign on the clone, return it
UncheckedScalarAdd ==
    /\ Running
    /\ \E scalar \in Scalars :
         /\ ct.degree + scalar <= MaxDegree
         /\ \E r \in UncheckedScalarAddAssignCall(server_key, Clone(ct), scalar) :
              /\ ct_result' = IF r.outcome = "Ok" THEN <<r.ct>> ELSE <<>>
              /\ last' = [ op |-> "unchecked_scalar_add", scalar |-> scalar, pre |-> ct,
                           outcome |-> r.outcome,
                           trace |-> <<"unchecked_scalar_add_assign">> \o r.trace ]
         /\ misuse' = (misuse \/ ~IsScalarAddPossible(server_key, ct, scalar))
    /\ UNCHANGED <<confcall, sercall, bootstrapper, bcall, shcall, ncall, clonecall, listcall, server_key, ct, degcall>>

\* unchecked_scalar_add_assign(server_key, &mut ct, scalar)
UncheckedScalarAddAssignAct ==
    /\ Running
    /\ \E scalar \in Scalars :
         /\ ct.degree + scalar <= MaxDegree
         /\ \E r \in UncheckedScalarAddAssignCall(server_key, ct, scalar) :
              /\ ct' = r.ct
              /\ last' = [ op |-> "unchecked_scalar_add_assign", scalar |-> scalar, pre |-> ct,
                           outcome |-> r.outcome, trace |-> r.trace ]
         /\ misuse' = (misuse \/ ~IsScalarAddPossible(server_key, ct, scalar))
    /\ ct_result' = <<>>
    /\ UNCHANGED <<confcall, sercall, bootstrapper, bcall, shcall, ncall, clonecall, listcall, server_key, degcall>>

\* smart_scalar_add(server_key, &mut ct, scalar): clone, assign on the clone, return it
SmartScalarAdd ==
    /\ Running
    /\ \E scalar \in Scalars :
         \E r \in SmartScalarAddAssignCall(server_key, Clone(ct), scalar) :
              /\ ct_result' = IF r.outcome = "Ok" THEN <<r.ct>> ELSE <<>>
              /\ last' = [ op |-> "smart_scalar_add", scalar |-> scalar, pre |-> ct,
                           outcome |-> r.outcome,
                           trace |-> <<"smart_scalar_add_assign">> \o r.trace ]
    /\ UNCHANGED <<confcall, sercall, bootstrapper, bcall, shcall, ncall, clonecall, listcall, server_key, ct, misuse, degcall>>

\* smart_scalar_add_assign(server_key, &mut ct, scalar)
SmartScalarAddAssignAct ==
    /\ Running
    /\ \E scalar \in Scalars :
         \E r \in SmartScalarAddAssignCall(server_key, ct, scalar) :
              /\ ct' = r.ct
              /\ last' = [ op |-> "smart_scalar_add_assign", scalar |-> scalar, pre |-> ct,
                           outcome |-> r.outcome, trace |-> r.trace ]
    /\ ct_result' = <<>>
    /\ UNCHANGED <<confcall, sercall, bootstrapper, bcall, shcall, ncall, clonecall, listcall, server_key, misuse, degcall>>

Next ==
    \/ UncheckedScalarAdd
    \/ UncheckedScalarAddAssignAct
    \/ SmartScalarAdd
    \/ SmartScalarAddAssignAct

Spec == Init /\ [][Next]_vars

----------------------------------------------------------------------------
(* ciphertext/mod.rs: impl Degree                                          *)

\* the usize operators ^, | and &, bit by bit
RECURSIVE BitXor(_, _)
BitXor(x, y) ==
    IF x = 0 THEN y
    ELSE IF y = 0 THEN x
    ELSE 2 * BitXor(x \div 2, y \div 2) + (((x % 2) + (y % 2)) % 2)

RECURSIVE BitOr(_, _)
BitOr(x, y) ==
    IF x = 0 THEN y
    ELSE IF y = 0 THEN x
    ELSE 2 * BitOr(x \div 2, y \div 2) + (IF (x % 2) + (y % 2) > 0 THEN 1 ELSE 0)

RECURSIVE BitAnd(_, _)
BitAnd(x, y) ==
    IF x = 0 \/ y = 0 THEN 0
    ELSE 2 * BitAnd(x \div 2, y \div 2) + (IF (x % 2) + (y % 2) = 2 THEN 1 ELSE 0)

\* cmp::max, cmp::min
CmpMax(a, b) == IF a >= b THEN a ELSE b
CmpMin(a, b) == IF a <= b THEN a ELSE b

\* for i in 0..min + 1 { if max ^ i > result { result = max ^ i; } }, from i on
RECURSIVE BitxorScan(_, _, _, _)
BitxorScan(max, min, i, result) ==
    IF i >= min + 1 THEN result
    ELSE BitxorScan(max, min, i + 1,
                    IF BitXor(max, i) > result THEN BitXor(max, i) ELSE result)

\* Degree::after_bitxor(&self, other)
after_bitxor_exclusive(self, other) ==
    LET max == CmpMax(self, other)
        min == CmpMin(self, other)
    IN  BitxorScan(max, min - 1, 0, max)
after_bitxor(self, other) ==
    LET max == CmpMax(self, other)
        min == CmpMin(self, other)
    IN  BitxorScan(max, min, 0, max)

\* for i in 0..min + 1 { if max | i > result { result = max | i; } }, from i on
RECURSIVE BitorScan(_, _, _, _)
BitorScan(max, min, i, result) ==
    IF i >= min + 1 THEN result
    ELSE BitorScan(max, min, i + 1,
                   IF BitOr(max, i) > result THEN BitOr(max, i) ELSE result)

\* Degree::after_bitor(&self, other)
after_bitor_exclusive(self, other) ==
    LET max == CmpMax(self, other)
        min == CmpMin(self, other)
    IN  BitorScan(max, min - 1, 0, max)
after_bitor(self, other) ==
    LET max == CmpMax(self, other)
        min == CmpMin(self, other)
    IN  BitorScan(max, min, 0, max)

\* Degree::after_bitand(&self, other)
after_bitand_max(self, other) == CmpMax(self, other)
after_bitand(self, other) == CmpMin(self, other)

DegreeArgs == 0..MaxDegreeArg

AfterBitxor ==
    /\ degcall' = [degcall EXCEPT !.op = "after_bitxor",
                                  !.result = after_bitxor(degcall.self, degcall.other)]
    /\ UNCHANGED <<confcall, sercall, bootstrapper, bcall, shcall, ncall, clonecall, listcall, server_key, ct, ct_result, last, misuse>>

AfterBitor ==
    /\ degcall' = [degcall EXCEPT !.op = "after_bitor",
                                  !.result = after_bitor(degcall.self, degcall.other)]
    /\ UNCHANGED <<confcall, sercall, bootstrapper, bcall, shcall, ncall, clonecall, listcall, server_key, ct, ct_result, last, misuse>>

AfterBitand ==
    /\ degcall' = [degcall EXCEPT !.op = "after_bitand",
                                  !.result = after_bitand(degcall.self, degcall.other)]
    /\ UNCHANGED <<confcall, sercall, bootstrapper, bcall, shcall, ncall, clonecall, listcall, server_key, ct, ct_result, last, misuse>>

InitDegree ==
    /\ server_key = ServerKeyOf([message_modulus |-> 4, carry_modulus |-> 2])
    /\ ct = Encrypt(server_key, 1, 0, server_key.message_modulus - 1, NOMINAL)
    /\ ct_result = <<>>
    /\ last = NoCall(ct)
    /\ misuse = FALSE
    /\ degcall \in { [NoDegCall EXCEPT !.self = a, !.other = b] :
                        a \in DegreeArgs, b \in DegreeArgs }
    /\ shcall = NoShiftCall
    /\ ncall = NoNoiseCall
    /\ clonecall = NoCloneCall
    /\ listcall = NoListCall
    /\ IdleBoolean

NextDegree ==
    \/ AfterBitxor
    \/ AfterBitor
    \/ AfterBitand

SpecDegree == InitDegree /\ [][NextDegree]_vars

----------------------------------------------------------------------------
(* Properties of the scalar-add engine (checked under Spec)                *)

NonAssignOps == {"unchecked_scalar_add", "smart_scalar_add"}
UncheckedOps == {"unchecked_scalar_add", "unchecked_scalar_add_assign"}

\* the last call returned Ok
LastOk == last.op # "none" /\ last.outcome = "Ok"

\* the ciphertext the last call produced: the returned one, or the &mut argument
Produced == IF last.op \in NonAssignOps THEN ct_result[1] ELSE ct

\* is_scalar_add_possible held when the last call was made
LastPossible == IsScalarAddPossible(server_key, last.pre, last.scalar)

\* how many lookup tables the last call applied
LutCount == Cardinality({ i \in DOMAIN last.trace : last.trace[i] = "apply_lookup_table_assign" })

\* the plaintext (message and carry, with the padding bit) of a ciphertext
Plain(c) == DecryptMessageAndCarry(server_key, c)

\* C1: unchecked_scalar_add and unchecked_scalar_add_assign (on a clone) give
\* degree = c.degree + s exactly, whatever the bound, and leave noise_level as it was.
C1_UncheckedDegreeAndNoise ==
    (last.op \in UncheckedOps /\ LastOk) =>
        /\ Produced.degree = last.pre.degree + last.scalar
        /\ Produced.noise_level = last.pre.noise_level

\* an unchecked_scalar_add that took the degree past max_degree: nothing was clamped
C1_Witness ==
    /\ last.op = "unchecked_scalar_add"
    /\ LastOk
    /\ last.scalar > 0
    /\ ct_result[1].degree > server_key.max_degree
    /\ last.pre.noise_level = 2

\* C2: when is_scalar_add_possible is false, smart_scalar_add applies exactly one
\* lookup table and returns a ciphertext of plaintext (original + s) mod message_modulus,
\* for every original plaintext in [0, message_modulus * carry_modulus).
C2_SmartAddRefreshPlaintext ==
    (last.op = "smart_scalar_add" /\ ~LastPossible /\ Plain(last.pre) < FullModulus(server_key)) =>
        /\ LastOk
        /\ LutCount = 1
        /\ Plain(ct_result[1]) = (Plain(last.pre) + last.scalar) % server_key.message_modulus

\* smart_scalar_add of 255 on a ciphertext holding a carry
C2_Witness ==
    /\ last.op = "smart_scalar_add"
    /\ ~LastPossible
    /\ last.scalar = U8Max
    /\ Plain(last.pre) >= server_key.message_modulus
    /\ Plain(last.pre) < FullModulus(server_key)
    /\ LutCount = 1

\* C3: when is_scalar_add_possible is true, smart_scalar_add_assign leaves ct as
\* unchecked_scalar_add_assign would (body, degree + s, same noise) and applies no lookup table.
C3_SmartDelegatesWhenPossible ==
    (last.op = "smart_scalar_add_assign" /\ LastPossible) =>
        /\ LastOk
        /\ ct = UncheckedScalarAddAssign(server_key, last.pre, last.scalar)
        /\ ct.body = (last.pre.body + last.scalar * Delta(server_key)) % U64Modulus
        /\ ct.mask = last.pre.mask
        /\ ct.degree = last.pre.degree + last.scalar
        /\ ct.noise_level = last.pre.noise_level
        /\ LutCount = 0

\* a direct smart_scalar_add_assign of a non-zero scalar on an accumulated ciphertext
C3_Witness ==
    /\ last.op = "smart_scalar_add_assign"
    /\ LastPossible
    /\ last.scalar > 0
    /\ last.pre.noise_level = 2
    /\ ct.degree = server_key.max_degree

\* positions of a call in the trace of the last call
TracePositions(name) == { i \in DOMAIN last.trace : last.trace[i] = name }

\* C4 as stated: on the refresh path smart_scalar_add_assign refreshes the same value
\* at degree message_modulus - 1 and then runs unchecked_scalar_add_assign on it.
C4_RefreshThenUncheckedAdd ==
    (last.op = "smart_scalar_add_assign" /\ ~LastPossible) =>
        /\ \E i \in TracePositions("apply_lookup_table_assign") :
             \E j \in TracePositions("unchecked_scalar_add_assign") : i < j
        /\ ct.degree = server_key.message_modulus - 1 + last.scalar

\* C4 amended: on the refresh path smart_scalar_add_assign makes one lookup-table
\* application whose table computes (x + scalar) mod message_modulus itself; it leaves
\* degree = message_modulus - 1 and noise NOMINAL, and no unchecked_scalar_add_assign follows.
C4_RefreshComputesAddition ==
    (last.op = "smart_scalar_add_assign" /\ ~LastPossible) =>
        /\ last.trace = <<"generate_lookup_table", "apply_lookup_table_assign">>
        /\ ct.degree = server_key.message_modulus - 1
        /\ ct.noise_level = NOMINAL
        /\ Plain(last.pre) < FullModulus(server_key) =>
             Plain(ct) = (Plain(last.pre) + last.scalar) % server_key.message_modulus

\* a refresh by smart_scalar_add_assign with a scalar that is no multiple of message_modulus
C4_Witness ==
    /\ last.op = "smart_scalar_add_assign"
    /\ ~LastPossible
    /\ last.scalar % server_key.message_modulus # 0
    /\ Plain(last.pre) < FullModulus(server_key)
    /\ Plain(ct) # Plain(last.pre) % server_key.message_modulus

\* the degree of every ciphertext at hand is below message_modulus * carry_modulus
DegreesInRange ==
    /\ ct.degree < FullModulus(server_key)
    /\ ct_result # <<>> => ct_result[1].degree < FullModulus(server_key)

\* C5 as stated: after any sequence of unchecked and smart scalar adds,
\* degree < message_modulus * carry_modulus.
C5_DegreeAlwaysInRange == DegreesInRange

\* C5 amended: the same, when every unchecked_scalar_add[_assign] call was made with
\* is_scalar_add_possible true.
C5_DegreeInRangeWhenGuarded == ~misuse => DegreesInRange

\* a guarded unchecked_scalar_add_assign that took the degree to max_degree
C5_Witness ==
    /\ ~misuse
    /\ last.op = "unchecked_scalar_add_assign"
    /\ last.scalar > 0
    /\ ct.degree = server_key.max_degree

\* C6: a smart_scalar_add_assign call on a ciphertext of degree < message_modulus *
\* carry_modulus returns Ok, applies at most one lookup table and leaves such a degree.
C6_SmartKeepsDegreeInRange ==
    (last.op = "smart_scalar_add_assign" /\ last.pre.degree < FullModulus(server_key)) =>
        /\ LastOk
        /\ LutCount <= 1
        /\ ct.degree < FullModulus(server_key)

\* smart_scalar_add_assign of 255 on a ciphertext at max_degree: one lookup table
C6_Witness ==
    /\ last.op = "smart_scalar_add_assign"
    /\ last.pre.degree = server_key.max_degree
    /\ last.scalar = U8Max
    /\ LutCount = 1
    /\ LastOk

\* C7: as long as unchecked_scalar_add_assign is only called when is_scalar_add_possible
\* holds, the plaintext of ct is at most ct.degree.
C7_DegreeBoundsPlaintext == ~misuse => Plain(ct) <= ct.degree

\* a refresh that brought a plaintext with a carry back under message_modulus - 1
C7_Witness ==
    /\ ~misuse
    /\ last.op = "smart_scalar_add_assign"
    /\ ~LastPossible
    /\ Plain(last.pre) >= server_key.message_modulus
    /\ Plain(ct) = ct.degree

----------------------------------------------------------------------------
(* Properties of Degree::after_* (checked under SpecDegree)                *)

\* every plaintext pair the two degrees allow
PlainPairs == (0..degcall.self) \X (0..degcall.other)

\* C8: after_bitxor is >= max(a, b), equals the maximum of x XOR y over all
\* 0 <= x <= a, 0 <= y <= b, and is symmetric.
C8_AfterBitxorTight ==
    degcall.op = "after_bitxor" =>
        /\ degcall.result >= CmpMax(degcall.self, degcall.other)
        /\ degcall.result = SetMax({ BitXor(p[1], p[2]) : p \in PlainPairs })
        /\ degcall.result = after_bitxor(degcall.other, degcall.self)

\* after_bitxor above both operands
C8_Witness ==
    /\ degcall.op = "after_bitxor"
    /\ degcall.self < degcall.other
    /\ degcall.self > 0
    /\ degcall.result > degcall.other

\* C9: after_bitor is >= max(a, b), equals the maximum of x OR y over all
\* 0 <= x <= a, 0 <= y <= b, and is symmetric.
C9_AfterBitorTight ==
    degcall.op = "after_bitor" =>
        /\ degcall.result >= CmpMax(degcall.self, degcall.other)
        /\ degcall.result = SetMax({ BitOr(p[1], p[2]) : p \in PlainPairs })
        /\ degcall.result = after_bitor(degcall.other, degcall.self)

\* after_bitor above both operands
C9_Witness ==
    /\ degcall.op = "after_bitor"
    /\ degcall.self > degcall.other
    /\ degcall.other > 0
    /\ degcall.result > degcall.self

\* C10: after_bitand is min(a, b) and bounds x AND y for all 0 <= x <= a, 0 <= y <= b.
C10_AfterBitandMin ==
    degcall.op = "after_bitand" =>
        /\ degcall.result = CmpMin(degcall.self, degcall.other)
        /\ degcall.result <= degcall.self
        /\ degcall.result <= degcall.other
        /\ \A p \in PlainPairs : BitAnd(p[1], p[2]) <= degcall.result

\* after_bitand of two different non-zero degrees, reached by some plaintext pair
C10_Witness ==
    /\ degcall.op = "after_bitand"
    /\ degcall.self > degcall.other
    /\ degcall.other > 0
    /\ \E p \in PlainPairs : BitAnd(p[1], p[2]) = degcall.result

----------------------------------------------------------------------------
(* ciphertext/mod.rs: Degree::after_left_shift                             *)

RECURSIVE Pow2(_)
Pow2(k) == IF k = 0 THEN 1 ELSE 2 * Pow2(k - 1)

\* i << shift on usize, for a shift below the 64 bits of usize and a value
\* that keeps all its bits (the bounds keep i << shift far below 2^64)
ShiftLeft(i, shift) == i * Pow2(shift)

\* for i in 0..self.0 + 1 { let tmp = (i << shift) % modulus;
\*                          if tmp > result { result = tmp; } }, from i on
RECURSIVE LeftShiftScan(_, _, _, _, _)
LeftShiftScan(self, shift, modulus, i, result) ==
    IF i >= self + 1 THEN result
    ELSE LET tmp == ShiftLeft(i, shift) % modulus
         IN  LeftShiftScan(self, shift, modulus, i + 1, IF tmp > result THEN tmp ELSE result)

\* Degree::after_left_shift(&self, shift, modulus)
after_left_shift_of_degree(self, shift, modulus) == ShiftLeft(self, shift) % modulus
after_left_shift(self, shift, modulus) == LeftShiftScan(self, shift, modulus, 0, 0)

AfterLeftShift ==
    /\ shcall' = [shcall EXCEPT !.op = "after_left_shift",
                                !.result = after_left_shift(shcall.self, shcall.shift,
                                                            shcall.modulus)]
    /\ UNCHANGED <<confcall, sercall, bootstrapper, bcall, server_key, ct, ct_result, last, misuse, degcall, ncall, clonecall, listcall>>

\* the engine of scalar_add.rs at rest, for the specifications that do not call it
IdleEngine ==
    /\ server_key = ServerKeyOf([message_modulus |-> 4, carry_modulus |-> 2])
    /\ ct = Encrypt(server_key, 1, 0, server_key.message_modulus - 1, NOMINAL)
    /\ ct_result = <<>>
    /\ last = NoCall(ct)
    /\ misuse = FALSE

InitShift ==
    /\ IdleEngine
    /\ degcall = NoDegCall
    /\ shcall \in { [ op |-> "none", self |-> d, shift |-> k, modulus |-> m, result |-> 0 ] :
                      d \in 0..MaxShiftDegree, k \in 0..MaxShift, m \in 1..MaxShiftModulus }
    /\ ncall = NoNoiseCall
    /\ clonecall = NoCloneCall
    /\ listcall = NoListCall
    /\ IdleBoolean

NextShift == AfterLeftShift

SpecShift == InitShift /\ [][NextShift]_vars

\* C11: after_left_shift(k, m) is the maximum of (v << k) mod m over v in [0, d];
\* it is below m, and it need not be (d << k) mod m.
C11_AfterLeftShiftIsMax ==
    shcall.op = "after_left_shift" =>
        /\ shcall.result = SetMax({ (v * Pow2(shcall.shift)) % shcall.modulus :
                                      v \in 0..shcall.self })
        /\ shcall.result < shcall.modulus

\* a shift that wraps through the modulus: the bound is above (d << k) mod m
C11_Witness ==
    /\ shcall.op = "after_left_shift"
    /\ shcall.shift > 0
    /\ shcall.result > (shcall.self * Pow2(shcall.shift)) % shcall.modulus
    /\ shcall.self * Pow2(shcall.shift) >= shcall.modulus

----------------------------------------------------------------------------
(* ciphertext/mod.rs: NoiseLevel; server_key/tests/noise_level.rs          *)

\* impl Add / AddAssign for NoiseLevel: self.0 += rhs.0
NoiseLevelAddOverwrite(a, rhs) == rhs
NoiseLevelAdd(a, rhs) == a + rhs

\* impl Mul<usize> / MulAssign<usize> for NoiseLevel: self.0 *= rhs
NoiseLevelMulAsAdd(a, rhs) == a + rhs
NoiseLevelMul(a, rhs) == a * rhs

\* the operations the test calls, by family
AddSubOps ==
    { "unchecked_add", "unchecked_sub", "unchecked_sub_with_correcting_term",
      "unchecked_add_assign", "unchecked_sub_assign",
      "unchecked_sub_with_correcting_term_assign" }
MulOps ==
    { "unchecked_mul_lsb", "unchecked_mul_msb",
      "unchecked_mul_lsb_assign", "unchecked_mul_msb_assign" }
BivariateOps ==
    { "unchecked_div", "unchecked_bitand", "unchecked_bitor", "unchecked_bitxor",
      "unchecked_equal", "unchecked_greater", "unchecked_greater_or_equal",
      "unchecked_less", "unchecked_less_or_equal", "unchecked_not_equal",
      "unchecked_evaluate_bivariate_function",
      "unchecked_div_assign", "unchecked_bitand_assign", "unchecked_bitor_assign",
      "unchecked_bitxor_assign", "unchecked_evaluate_bivariate_function_assign" }
LutOps == { "apply_lookup_table", "apply_lookup_table_assign" }
NegOps ==
    { "unchecked_neg", "unchecked_neg_with_correcting_term",
      "unchecked_neg_assign", "unchecked_neg_assign_with_correcting_term" }
ScalarLinearOps ==
    { "unchecked_scalar_add", "unchecked_scalar_sub",
      "unchecked_scalar_add_assign", "unchecked_scalar_sub_assign" }
ScalarMulOps == { "unchecked_scalar_mul", "unchecked_scalar_mul_assign" }
ScalarDivModOps ==
    { "unchecked_scalar_div", "unchecked_scalar_mod",
      "unchecked_scalar_div_assign", "unchecked_scalar_mod_assign" }
ScalarBootstrapOps ==
    { "unchecked_scalar_bitand", "unchecked_scalar_bitor", "unchecked_scalar_bitxor",
      "unchecked_scalar_right_shift",
      "unchecked_scalar_bitand_assign", "unchecked_scalar_bitor_assign",
      "unchecked_scalar_bitxor_assign", "unchecked_scalar_right_shift_assign" }
ScalarLeftShiftOps == { "unchecked_scalar_left_shift", "unchecked_scalar_left_shift_assign" }

\* the closures g the test compares the noise level with
\* test_2_ct: &|a, b| a + b
ExpectedAddNoise(a, b) == NoiseLevelAdd(a, b)
\* test_2_ct: any_trivially_encrypted = ct1.degree.0 == 0 || ct2.degree.0 == 0
ExpectedMulNoiseNominal(c1, c2) == NOMINAL
ExpectedMulNoise(c1, c2) ==
    IF c1.degree = 0 \/ c2.degree = 0 THEN ZERO ELSE NOMINAL
\* test_2_ct and test_1_ct_1_scalar: &|_, _| NoiseLevel::NOMINAL
ExpectedBootstrapNoiseTrivialZero(c1, c2) ==
    IF c1.noise_level = ZERO \/ c2.noise_level = ZERO THEN ZERO ELSE NOMINAL
ExpectedBootstrapNoise(c1, c2) == NOMINAL
\* test_1_ct: &|_| NoiseLevel::NOMINAL
ExpectedLutNoiseUnchanged(a) == a
ExpectedLutNoise(a) == NOMINAL
\* test_1_ct and test_1_ct_1_scalar: &|a| a, &|a, _| a
ExpectedSameNoise(a) == a
\* test_1_ct_1_scalar: &|a, b| a * b as usize
ExpectedScalarMulNoise(a, scalar) == NoiseLevelMul(a, scalar)
\* test_1_ct_1_scalar: &|a, b| a * (1 << b as usize)
ExpectedLeftShiftNoise(a, scalar) == NoiseLevelMul(a, Pow2(scalar))

\* the operations under test, as far as their noise level goes
\* unchecked_add, unchecked_sub: noise_level(a) + noise_level(b)
AddSubNoise(c1, c2) == NoiseLevelAdd(c1.noise_level, c2.noise_level)
\* unchecked_mul_lsb, unchecked_mul_msb: a trivial zero when an operand has
\* degree 0, a bootstrap otherwise
MulNoise(c1, c2) ==
    IF c1.degree = 0 \/ c2.degree = 0 THEN ZERO ELSE NOMINAL
\* operations that end with a bootstrap
BootstrapNoise(c1, c2) == NOMINAL
\* unchecked_neg, unchecked_scalar_add, unchecked_scalar_sub
LinearNoise(c) == c.noise_level
\* unchecked_scalar_mul
ScalarMulNoise(c, scalar) == NoiseLevelMul(c.noise_level, scalar)
\* unchecked_scalar_left_shift
ScalarLeftShiftNoise(c, scalar) == NoiseLevelMul(c.noise_level, Pow2(scalar))

\* generate_lookup_table(|_| 0) and the tables of scalar additions
TestLookupTables(sk) ==
    { [ table  |-> [x \in 0..(FullModulus(sk) - 1) |-> 0], degree |-> 0 ],
      GenerateLookupTable(sk, 0),
      GenerateLookupTable(sk, 1) }

\* trivial, encrypted and accumulated ciphertexts of plaintext 0
TestOperands(sk) ==
    { Encrypt(sk, IF n = ZERO THEN 0 ELSE 1, 0, d, n) :
        d \in 0..MaxOperandDegree, n \in 0..MaxOperandNoise }

\* what test_fn records: the call, the noise level of f(..) and whether
\* assert!(f(..).noise_level == g(..)) passed
Tested(op, noise, expected) ==
    [ncall EXCEPT !.op = op, !.noise_level = noise, !.asserted = (noise = expected)]

\* test_1_ct_noise_level_propagation, test_1_ct_assign_noise_level_propagation
Test1CtNeg ==
    /\ ncall.kind = "1ct"
    /\ \E op \in NegOps :
         ncall' = Tested(op, LinearNoise(ncall.ct1), ExpectedSameNoise(ncall.ct1.noise_level))
    /\ UNCHANGED <<confcall, sercall, bootstrapper, bcall, server_key, ct, ct_result, last, misuse, degcall, shcall, clonecall, listcall>>

Test1CtLut ==
    /\ ncall.kind = "1ct"
    /\ \E op \in LutOps, acc \in TestLookupTables(server_key) :
         \E o \in ApplyLookupTableAssign(server_key, Clone(ncall.ct1), acc) :
            ncall' = Tested(op, o.noise_level, ExpectedLutNoise(ncall.ct1.noise_level))
    /\ UNCHANGED <<confcall, sercall, bootstrapper, bcall, server_key, ct, ct_result, last, misuse, degcall, shcall, clonecall, listcall>>

\* test_2_ct_noise_level_propagation, test_2_ct_assign_noise_level_propagation
Test2CtAddSub ==
    /\ ncall.kind = "2ct"
    /\ \E op \in AddSubOps :
         ncall' = Tested(op, AddSubNoise(ncall.ct1, ncall.ct2),
                         ExpectedAddNoise(ncall.ct1.noise_level, ncall.ct2.noise_level))
    /\ UNCHANGED <<confcall, sercall, bootstrapper, bcall, server_key, ct, ct_result, last, misuse, degcall, shcall, clonecall, listcall>>

Test2CtMul ==
    /\ ncall.kind = "2ct"
    /\ \E op \in MulOps :
         ncall' = Tested(op, MulNoise(ncall.ct1, ncall.ct2),
                         ExpectedMulNoise(ncall.ct1, ncall.ct2))
    /\ UNCHANGED <<confcall, sercall, bootstrapper, bcall, server_key, ct, ct_result, last, misuse, degcall, shcall, clonecall, listcall>>

Test2CtBootstrap ==
    /\ ncall.kind = "2ct"
    /\ \E op \in BivariateOps :
         ncall' = Tested(op, BootstrapNoise(ncall.ct1, ncall.ct2),
                         ExpectedBootstrapNoise(ncall.ct1, ncall.ct2))
    /\ UNCHANGED <<confcall, sercall, bootstrapper, bcall, server_key, ct, ct_result, last, misuse, degcall, shcall, clonecall, listcall>>

\* test_1_ct_1_scalar_noise_level_propagation and its assign twin
TestScalarLinear ==
    /\ ncall.kind = "scalar"
    /\ \E op \in ScalarLinearOps :
         ncall' = Tested(op, LinearNoise(ncall.ct1), ExpectedSameNoise(ncall.ct1.noise_level))
    /\ UNCHANGED <<confcall, sercall, bootstrapper, bcall, server_key, ct, ct_result, last, misuse, degcall, shcall, clonecall, listcall>>

TestScalarMul ==
    /\ ncall.kind = "scalar"
    /\ \E op \in ScalarMulOps :
         ncall' = Tested(op, ScalarMulNoise(ncall.ct1, ncall.scalar),
                         ExpectedScalarMulNoise(ncall.ct1.noise_level, ncall.scalar))
    /\ UNCHANGED <<confcall, sercall, bootstrapper, bcall, server_key, ct, ct_result, last, misuse, degcall, shcall, clonecall, listcall>>

TestScalarDivMod ==
    /\ ncall.kind = "scalar"
    /\ ncall.scalar # 0
    /\ \E op \in ScalarDivModOps :
         ncall' = Tested(op, BootstrapNoise(ncall.ct1, ncall.ct1),
                         ExpectedBootstrapNoise(ncall.ct1, ncall.ct1))
    /\ UNCHANGED <<confcall, sercall, bootstrapper, bcall, server_key, ct, ct_result, last, misuse, degcall, shcall, clonecall, listcall>>

TestScalarBootstrap ==
    /\ ncall.kind = "scalar"
    /\ \E op \in ScalarBootstrapOps :
         ncall' = Tested(op, BootstrapNoise(ncall.ct1, ncall.ct1),
                         ExpectedBootstrapNoise(ncall.ct1, ncall.ct1))
    /\ UNCHANGED <<confcall, sercall, bootstrapper, bcall, server_key, ct, ct_result, last, misuse, degcall, shcall, clonecall, listcall>>

TestScalarLeftShift ==
    /\ ncall.kind = "scalar"
    /\ ncall.scalar < TestShiftEnd
    /\ \E op \in ScalarLeftShiftOps :
         ncall' = Tested(op, ScalarLeftShiftNoise(ncall.ct1, ncall.scalar),
                         ExpectedLeftShiftNoise(ncall.ct1.noise_level, ncall.scalar))
    /\ UNCHANGED <<confcall, sercall, bootstrapper, bcall, server_key, ct, ct_result, last, misuse, degcall, shcall, clonecall, listcall>>

\* the loops of test_noise_level_propagation: one ciphertext, two ciphertexts,
\* a ciphertext and a scalar in 0..12
InitNoise ==
    /\ server_key = ServerKeyOf([message_modulus |-> 4, carry_modulus |-> 4])
    /\ ct = Encrypt(server_key, 1, 0, server_key.message_modulus - 1, NOMINAL)
    /\ ct_result = <<>>
    /\ last = NoCall(ct)
    /\ misuse = FALSE
    /\ degcall = NoDegCall
    /\ shcall = NoShiftCall
    /\ \E c1 \in TestOperands(server_key), c2 \in TestOperands(server_key),
          s \in 0..(TestScalarEnd - 1), kind \in {"1ct", "2ct", "scalar"} :
         /\ kind # "2ct" => c2 = c1
         /\ kind # "scalar" => s = 0
         /\ ncall = [ op |-> "none", kind |-> kind, ct1 |-> c1, ct2 |-> c2, scalar |-> s,
                      noise_level |-> ZERO, asserted |-> TRUE ]
    /\ clonecall = NoCloneCall
    /\ listcall = NoListCall
    /\ IdleBoolean

NextNoise ==
    \/ Test1CtNeg
    \/ Test1CtLut
    \/ Test2CtAddSub
    \/ Test2CtMul
    \/ Test2CtBootstrap
    \/ TestScalarLinear
    \/ TestScalarMul
    \/ TestScalarDivMod
    \/ TestScalarBootstrap
    \/ TestScalarLeftShift

SpecNoise == InitNoise /\ [][NextNoise]_vars

\* C12: unchecked_add, unchecked_sub and unchecked_sub_with_correcting_term
\* (and their assign forms) give the noise level noise(a) + noise(b): two
\* NOMINAL operands give 2, the sum does not depend on the operand order, a
\* ZERO operand leaves the other's level, and the test's assertion passes.
C12_AddSubNoiseIsSum ==
    ncall.op \in AddSubOps =>
        LET a == ncall.ct1.noise_level
            b == ncall.ct2.noise_level
        IN /\ ncall.noise_level = a + b
           /\ ncall.asserted
           /\ (a = NOMINAL /\ b = NOMINAL) => ncall.noise_level = 2
           /\ AddSubNoise(ncall.ct2, ncall.ct1) = ncall.noise_level
           /\ b = ZERO => ncall.noise_level = a
           /\ a = ZERO => ncall.noise_level = b

C12_Witness ==
    /\ ncall.op = "unchecked_sub_with_correcting_term"
    /\ ncall.ct1.noise_level = NOMINAL
    /\ ncall.ct2.noise_level = 2
    /\ ncall.noise_level = 3

\* C13: apply_lookup_table and apply_lookup_table_assign give a result of
\* noise level exactly NOMINAL, whatever the input's noise level and table.
C13_LookupTableNoiseNominal ==
    ncall.op \in LutOps => ncall.noise_level = NOMINAL /\ ncall.asserted

C13_Witness ==
    /\ ncall.op = "apply_lookup_table_assign"
    /\ ncall.ct1.noise_level > NOMINAL
    /\ ncall.noise_level = NOMINAL

\* C14: unchecked_mul_lsb and unchecked_mul_msb (and their assign forms) give
\* noise level ZERO when either operand has degree 0 and NOMINAL otherwise,
\* whatever the operands' noise levels.
C14_MulNoiseByDegree ==
    ncall.op \in MulOps =>
        /\ (ncall.ct1.degree = 0 \/ ncall.ct2.degree = 0) => ncall.noise_level = ZERO
        /\ (ncall.ct1.degree # 0 /\ ncall.ct2.degree # 0) => ncall.noise_level = NOMINAL
        /\ ncall.asserted

C14_Witness ==
    /\ ncall.op = "unchecked_mul_msb"
    /\ ncall.ct1.degree = 0
    /\ ncall.ct1.noise_level > NOMINAL
    /\ ncall.ct2.degree # 0
    /\ ncall.noise_level = ZERO

C16_ScalarNoise ==
    LET a == ncall.ct1.noise_level
        s == ncall.scalar
    IN /\ ncall.op \in ScalarMulOps =>
            /\ ncall.noise_level = a * s
            /\ s = 0 => ncall.noise_level = ZERO
            /\ ncall.asserted
       /\ ncall.op \in ScalarLeftShiftOps =>
            /\ s < 8
            /\ ncall.noise_level = a * (2 ^ s)
            /\ ncall.asserted
       /\ ncall.op \in NegOps \cup ScalarLinearOps =>
            /\ ncall.noise_level = a
            /\ ncall.asserted

C16_Witness ==
    /\ ncall.op = "unchecked_scalar_left_shift"
    /\ ncall.ct1.noise_level = 3
    /\ ncall.scalar = 7
    /\ ncall.noise_level = 384

----------------------------------------------------------------------------
\* what the assign form of the last non-assign call leaves in a ciphertext
\* equal to the caller's, with the outcome of the call
AssignOutcomes ==
    IF last.op = "unchecked_scalar_add"
    THEN UncheckedScalarAddAssignCall(server_key, last.pre, last.scalar)
    ELSE SmartScalarAddAssignCall(server_key, last.pre, last.scalar)

\* C17: unchecked_scalar_add and smart_scalar_add return exactly what their
\* assign form leaves in a clone of the input (data, degree, noise level,
\* moduli, PBS order), and the caller's ciphertext is unchanged, also when
\* smart_scalar_add refreshes.
C17_NonAssignIsAssignOnClone ==
    last.op \in NonAssignOps =>
        /\ ct = last.pre
        /\ \E r \in AssignOutcomes :
             /\ r.outcome = last.outcome
             /\ last.trace = <<last.op \o "_assign">> \o r.trace
             /\ IF last.outcome = "Ok"
                THEN ct_result = <<r.ct>>
                ELSE ct_result = <<>>

\* a smart_scalar_add that refreshed: the result is bootstrapped, the input
\* keeps its noise level and degree
C17_Witness ==
    /\ last.op = "smart_scalar_add"
    /\ LastOk
    /\ LutCount = 1
    /\ ct = last.pre
    /\ ct.noise_level = 2
    /\ ct_result[1].noise_level = NOMINAL
    /\ ct_result[1].degree # ct.degree

----------------------------------------------------------------------------
(* ciphertext/mod.rs: impl Clone for Ciphertext, on the LWE container       *)

\* CiphertextModulus::new_native(), CiphertextModulus::try_new_power_of_2(32)
CiphertextModuli == { "native", "power_of_2_32" }

\* LweCiphertextOwned<u64>: the container, its modulus, and the allocation
\* that holds the container
LweCiphertextOwned(data, ciphertext_modulus, buffer) ==
    [ data |-> data, ciphertext_modulus |-> ciphertext_modulus, buffer |-> buffer ]

\* lwe_size(): the length of the container
LweSize(lwe) == Len(lwe.data)

\* LweCiphertextOwned::clone: the same elements and modulus in a new allocation
LweClone(lwe, buffer) == LweCiphertextOwned(lwe.data, lwe.ciphertext_modulus, buffer)

\* dst.as_mut().copy_from_slice(src.as_ref()): every slot of dst is overwritten
CopyFromSlice(dst, src) == [dst EXCEPT !.data = [i \in DOMAIN dst.data |-> src.data[i]]]

\* an allocation that neither operand holds
FreshBuffer(dst, src) == CHOOSE b \in 1..3 : b \notin {dst.ct.buffer, src.ct.buffer}

\* the (degree, message modulus, carry modulus, PBS order, noise level) of
\* the ciphertexts of the clone_from tests, and of a trivial ciphertext
CloneTestMetadata ==
    { [ degree |-> 1, message_modulus |-> 1, carry_modulus |-> 1,
        pbs_order |-> "KeyswitchBootstrap", noise_level |-> NOMINAL ],
      [ degree |-> 42, message_modulus |-> 2, carry_modulus |-> 2,
        pbs_order |-> "BootstrapKeyswitch", noise_level |-> NOMINAL ],
      [ degree |-> 1, message_modulus |-> 2, carry_modulus |-> 2,
        pbs_order |-> "KeyswitchBootstrap", noise_level |-> ZERO ] }

LweContainers ==
    UNION { [1..n -> 1..MaxLweValue] : n \in 1..MaxLweSize }

CloneTestCiphertexts(buffer) ==
    { [ ct              |-> LweCiphertextOwned(data, modulus, buffer),
        degree          |-> md.degree,
        noise_level     |-> md.noise_level,
        message_modulus |-> md.message_modulus,
        carry_modulus   |-> md.carry_modulus,
        pbs_order       |-> md.pbs_order ] :
        data \in LweContainers, modulus \in CiphertextModuli, md \in CloneTestMetadata }

\* Ciphertext::clone_from(&mut self, source)
CloneFromAlwaysReallocates(self, source) ==
    [ ct              |-> LweClone(source.ct, FreshBuffer(self, source)),
      degree          |-> source.degree,
      noise_level     |-> source.noise_level,
      message_modulus |-> source.message_modulus,
      carry_modulus   |-> source.carry_modulus,
      pbs_order       |-> source.pbs_order ]
CloneFrom(self, source) ==
    [ ct              |-> IF \/ self.ct.ciphertext_modulus # source.ct.ciphertext_modulus
                             \/ LweSize(self.ct) # LweSize(source.ct)
                          THEN LweClone(source.ct, FreshBuffer(self, source))
                          ELSE CopyFromSlice(self.ct, source.ct),
      degree          |-> source.degree,
      noise_level     |-> source.noise_level,
      message_modulus |-> source.message_modulus,
      carry_modulus   |-> source.carry_modulus,
      pbs_order       |-> source.pbs_order ]

\* #[derive(PartialEq)] on Ciphertext and on the LWE ciphertext: the
\* elements, the modulus and the five other fields
CiphertextEq(a, b) ==
    /\ a.ct.data = b.ct.data
    /\ a.ct.ciphertext_modulus = b.ct.ciphertext_modulus
    /\ a.degree = b.degree
    /\ a.noise_level = b.noise_level
    /\ a.message_modulus = b.message_modulus
    /\ a.carry_modulus = b.carry_modulus
    /\ a.pbs_order = b.pbs_order

\* c1.clone_from(&c2)
CloneFromAct ==
    /\ clonecall' = [ op |-> "clone_from",
                      c1 |-> CloneFrom(clonecall.c1, clonecall.c2),
                      c2 |-> clonecall.c2,
                      pre1 |-> clonecall.c1,
                      pre2 |-> clonecall.c2 ]
    /\ UNCHANGED <<confcall, sercall, bootstrapper, bcall, server_key, ct, ct_result, last, misuse, degcall, shcall, ncall, listcall>>

InitClone ==
    /\ IdleEngine
    /\ degcall = NoDegCall
    /\ shcall = NoShiftCall
    /\ ncall = NoNoiseCall
    /\ \E c1 \in CloneTestCiphertexts(1), c2 \in CloneTestCiphertexts(2) :
         clonecall = [ op |-> "none", c1 |-> c1, c2 |-> c2, pre1 |-> c1, pre2 |-> c2 ]
    /\ listcall = NoListCall
    /\ IdleBoolean

NextClone == CloneFromAct

SpecClone == InitClone /\ [][NextClone]_vars

\* C18: after c1.clone_from(&c2), c1 equals c2 on the LWE data with its
\* modulus, degree, noise level, message modulus, carry modulus and PBS
\* order, c2 is unchanged, and c1's LWE buffer is a fresh clone exactly when
\* the ciphertext moduli or the LWE sizes differed, else it was overwritten
\* in place.
C18_CloneFromEqualsSource ==
    clonecall.op = "clone_from" =>
        LET c1 == clonecall.c1
            c2 == clonecall.c2
            old == clonecall.pre1
            differ == \/ old.ct.ciphertext_modulus # c2.ct.ciphertext_modulus
                      \/ Len(old.ct.data) # Len(c2.ct.data)
        IN /\ CiphertextEq(c1, c2)
           /\ c2 = clonecall.pre2
           /\ c1.ct.buffer # c2.ct.buffer
           /\ differ <=> c1.ct.buffer # old.ct.buffer
           /\ ~differ => c1.ct.buffer = old.ct.buffer

\* clone_from in place: same size and modulus, every other field differed
C18_Witness ==
    /\ clonecall.op = "clone_from"
    /\ clonecall.pre1.ct.data # clonecall.c2.ct.data
    /\ clonecall.pre1.noise_level # clonecall.c2.noise_level
    /\ clonecall.pre1.degree # clonecall.c2.degree
    /\ clonecall.pre1.pbs_order # clonecall.c2.pbs_order
    /\ Len(clonecall.pre1.ct.data) = Len(clonecall.c2.ct.data)
    /\ clonecall.pre1.ct.ciphertext_modulus = clonecall.c2.ct.ciphertext_modulus
    /\ clonecall.c1.ct.buffer = clonecall.pre1.ct.buffer

----------------------------------------------------------------------------
(* ciphertext/mod.rs: CompressedCiphertext and CompactCiphertextList        *)

\* the fields a compressed ciphertext or a compact list carries next to its
\* LWE data
ListMetadata ==
    { [ degree |-> d, noise_level |-> n, message_modulus |-> 4, carry_modulus |-> 4,
        pbs_order |-> o ] :
        d \in {0, 3}, n \in {ZERO, NOMINAL, 2}, o \in {"KeyswitchBootstrap"} }
    \cup { [ degree |-> 1, noise_level |-> NOMINAL, message_modulus |-> 2, carry_modulus |-> 1,
             pbs_order |-> "BootstrapKeyswitch" ] }

\* the scalars of a ciphertext modulus, here 0..MaxLweValue
LweValueModulus == MaxLweValue + 1

\* SeededLweCiphertext::decompress_into_lwe_ciphertext: the mask is
\* regenerated from the seed, the body is kept
DecompressIntoLweCiphertext(seeded) ==
    LweCiphertextOwned(
        [j \in 1..(seeded.lwe_size - 1) |-> (seeded.seed + j) % LweValueModulus]
            \o <<seeded.body>>,
        seeded.ciphertext_modulus, 1)

\* CompressedCiphertext::decompress
DecompressFreshNoise(self) ==
    [ ct              |-> DecompressIntoLweCiphertext(self.ct),
      degree          |-> self.degree,
      noise_level     |-> NOMINAL,
      message_modulus |-> self.message_modulus,
      carry_modulus   |-> self.carry_modulus,
      pbs_order       |-> self.pbs_order ]
Decompress(self) ==
    [ ct              |-> DecompressIntoLweCiphertext(self.ct),
      degree          |-> self.degree,
      noise_level     |-> self.noise_level,
      message_modulus |-> self.message_modulus,
      carry_modulus   |-> self.carry_modulus,
      pbs_order       |-> self.pbs_order ]

\* ct_list.lwe_size(), ct_list.lwe_ciphertext_count()
ListLweSize(ct_list) == Len(ct_list.mask) + 1
ListLweCiphertextCount(ct_list) == Len(ct_list.bodies)

\* par_expand_lwe_compact_ciphertext_list into a list of count * lwe_size
\* scalars: ciphertext i has the shared mask rotated by i, the scalars that
\* wrap around negated, and the i-th body
ExpandLweCompactCiphertextList(ct_list) ==
    LET size == ListLweSize(ct_list)
        dim  == size - 1
    IN [ k \in 1..(ListLweCiphertextCount(ct_list) * size) |->
            LET i == (k - 1) \div size
                j == (k - 1) % size
            IN IF j = dim
               THEN ct_list.bodies[i + 1]
               ELSE IF j < i % dim
                    THEN (LweValueModulus - ct_list.mask[((j - i) % dim) + 1]) % LweValueModulus
                    ELSE ct_list.mask[((j - i) % dim) + 1] ]

\* slice::chunks_exact(chunk_size)
ChunksWindows(container, chunk_size) ==
    [ i \in 1..(Len(container) - chunk_size + 1) |-> SubSeq(container, i, i + chunk_size - 1) ]
ChunksExact(container, chunk_size) ==
    [ i \in 1..(Len(container) \div chunk_size) |->
        SubSeq(container, (i - 1) * chunk_size + 1, i * chunk_size) ]

\* CompactCiphertextList::expand; lwe_data.to_vec() is an allocation of its own
Expand(self) ==
    LET output_lwe_ciphertext_list == ExpandLweCompactCiphertextList(self.ct_list)
        chunks == ChunksExact(output_lwe_ciphertext_list, ListLweSize(self.ct_list))
    IN [ i \in DOMAIN chunks |->
            [ ct              |-> LweCiphertextOwned(chunks[i], self.ct_list.ciphertext_modulus, i),
              degree          |-> self.degree,
              noise_level     |-> self.noise_level,
              message_modulus |-> self.message_modulus,
              carry_modulus   |-> self.carry_modulus,
              pbs_order       |-> self.pbs_order ] ]

\* the compressed ciphertexts and the compact lists handed to decompress and expand
CompressedCiphertexts ==
    { [ ct              |-> [ seed |-> seed, body |-> body, lwe_size |-> size,
                              ciphertext_modulus |-> modulus ],
        degree          |-> md.degree,
        noise_level     |-> md.noise_level,
        message_modulus |-> md.message_modulus,
        carry_modulus   |-> md.carry_modulus,
        pbs_order       |-> md.pbs_order ] :
        seed \in 0..MaxLweValue, body \in 0..MaxLweValue, size \in 2..MaxListLweSize,
        modulus \in CiphertextModuli, md \in ListMetadata }

CompactCiphertextLists ==
    { [ ct_list         |-> [ mask |-> mask, bodies |-> bodies, ciphertext_modulus |-> modulus ],
        degree          |-> md.degree,
        noise_level     |-> md.noise_level,
        message_modulus |-> md.message_modulus,
        carry_modulus   |-> md.carry_modulus,
        pbs_order       |-> md.pbs_order ] :
        mask \in UNION { [1..n -> 1..MaxLweValue] : n \in 1..(MaxListLweSize - 1) },
        bodies \in UNION { [1..n -> 1..MaxLweValue] : n \in 1..MaxListCount },
        modulus \in CiphertextModuli, md \in ListMetadata }

\* compressed.decompress()
DecompressAct ==
    /\ listcall.kind = "compressed"
    /\ listcall' = [listcall EXCEPT !.op = "decompress", !.out = <<Decompress(listcall.input)>>]
    /\ UNCHANGED <<confcall, sercall, bootstrapper, bcall, server_key, ct, ct_result, last, misuse, degcall, shcall, ncall, clonecall>>

\* list.expand()
ExpandAct ==
    /\ listcall.kind = "list"
    /\ listcall' = [listcall EXCEPT !.op = "expand", !.out = Expand(listcall.input)]
    /\ UNCHANGED <<confcall, sercall, bootstrapper, bcall, server_key, ct, ct_result, last, misuse, degcall, shcall, ncall, clonecall>>

InitCompact ==
    /\ IdleEngine
    /\ degcall = NoDegCall
    /\ shcall = NoShiftCall
    /\ ncall = NoNoiseCall
    /\ clonecall = NoCloneCall
    /\ \/ \E c \in CompressedCiphertexts :
            listcall = [ op |-> "none", kind |-> "compressed", input |-> c, pre |-> c, out |-> <<>> ]
       \/ \E l \in CompactCiphertextLists :
            listcall = [ op |-> "none", kind |-> "list", input |-> l, pre |-> l, out |-> <<>> ]
    /\ IdleBoolean

NextCompact ==
    \/ DecompressAct
    \/ ExpandAct

SpecCompact == InitCompact /\ [][NextCompact]_vars

\* the five fields other than the LWE data agree
SameMetadata(a, b) ==
    /\ a.degree = b.degree
    /\ a.noise_level = b.noise_level
    /\ a.message_modulus = b.message_modulus
    /\ a.carry_modulus = b.carry_modulus
    /\ a.pbs_order = b.pbs_order

\* C19: CompressedCiphertext::decompress and CompactCiphertextList::expand
\* keep degree, noise level, message modulus, carry modulus and PBS order:
\* the decompressed ciphertext has the compressed one's, and every expanded
\* ciphertext has the list's.
C19_MetadataPreserved ==
    /\ listcall.op = "decompress" =>
          /\ Len(listcall.out) = 1
          /\ SameMetadata(listcall.out[1], listcall.pre)
    /\ listcall.op = "expand" =>
          /\ listcall.out # <<>>
          /\ \A i \in DOMAIN listcall.out : SameMetadata(listcall.out[i], listcall.pre)

C19_Witness ==
    /\ listcall.op = "decompress"
    /\ listcall.pre.noise_level = 2
    /\ listcall.pre.degree = 3
    /\ listcall.out[1].noise_level = 2

\* C20: expand on a list of n ciphertexts of LWE size L returns exactly n
\* ciphertexts in order, each of size L with the list's ciphertext modulus,
\* the i-th holding the i-th L-element slice of the expanded buffer in a
\* container of its own, and leaves the list unchanged.
C20_ExpandChunks ==
    listcall.op = "expand" =>
        LET list   == listcall.pre
            n      == Len(list.ct_list.bodies)
            L      == Len(list.ct_list.mask) + 1
            buffer == ExpandLweCompactCiphertextList(list.ct_list)
            out    == listcall.out
        IN /\ Len(buffer) = n * L
           /\ Len(out) = n
           /\ \A i \in 1..Len(out) :
                /\ Len(out[i].ct.data) = L
                /\ out[i].ct.ciphertext_modulus = list.ct_list.ciphertext_modulus
                /\ \A j \in 1..L : out[i].ct.data[j] = buffer[(i - 1) * L + j]
                /\ out[i].ct.data[L] = list.ct_list.bodies[i]
           /\ \A i, k \in 1..Len(out) : i # k => out[i].ct.buffer # out[k].ct.buffer
           /\ listcall.input = list

C20_Witness ==
    /\ listcall.op = "expand"
    /\ Len(listcall.out) = 3
    /\ Len(listcall.pre.ct_list.mask) = 2
    /\ listcall.out[1].ct.data # listcall.out[2].ct.data
    /\ listcall.out[2].ct.data # listcall.out[3].ct.data
    /\ listcall.out[3].ct.data[3] = listcall.pre.ct_list.bodies[3]

----------------------------------------------------------------------------
(* ciphertext/mod.rs: impl ParameterSetConformant                           *)

\* LweCiphertext::is_conformant: the LWE size and the ciphertext modulus of
\* the parameters
LweCiphertextIsConformant(lwe, ct_params) ==
    /\ LweSize(lwe) = ct_params.lwe_size
    /\ lwe.ciphertext_modulus = ct_params.ciphertext_modulus

\* SeededLweCiphertext::is_conformant
SeededLweCiphertextIsConformant(seeded, ct_params) ==
    /\ seeded.lwe_size = ct_params.lwe_size
    /\ seeded.ciphertext_modulus = ct_params.ciphertext_modulus

\* LweCompactCiphertextList::is_conformant: also the number of ciphertexts
LweCompactCiphertextListIsConformant(ct_list, ct_list_params) ==
    /\ ListLweSize(ct_list) = ct_list_params.lwe_size
    /\ ct_list.ciphertext_modulus = ct_list_params.ciphertext_modulus
    /\ ListLweCiphertextCount(ct_list) = ct_list_params.lwe_ciphertext_count

\* Ciphertext::is_conformant
CiphertextIsConformantUpTo(self, param) ==
    /\ LweCiphertextIsConformant(self.ct, param.ct_params)
    /\ self.message_modulus = param.message_modulus
    /\ self.carry_modulus = param.carry_modulus
    /\ self.pbs_order = param.pbs_order
    /\ self.degree <= param.degree
    /\ self.noise_level <= param.noise_level
CiphertextIsConformant(self, param) ==
    /\ LweCiphertextIsConformant(self.ct, param.ct_params)
    /\ self.message_modulus = param.message_modulus
    /\ self.carry_modulus = param.carry_modulus
    /\ self.pbs_order = param.pbs_order
    /\ self.degree = param.degree
    /\ self.noise_level = param.noise_level

\* CompressedCiphertext::is_conformant
CompressedCiphertextIsConformant(self, param) ==
    /\ SeededLweCiphertextIsConformant(self.ct, param.ct_params)
    /\ self.message_modulus = param.message_modulus
    /\ self.carry_modulus = param.carry_modulus
    /\ self.pbs_order = param.pbs_order
    /\ self.degree = param.degree
    /\ self.noise_level = param.noise_level

\* CompactCiphertextList::is_conformant
CompactCiphertextListIsConformant(self, param) ==
    /\ LweCompactCiphertextListIsConformant(self.ct_list, param.ct_list_params)
    /\ self.message_modulus = param.message_modulus
    /\ self.carry_modulus = param.carry_modulus
    /\ self.pbs_order = param.pbs_order
    /\ self.degree = param.degree
    /\ self.noise_level = param.noise_level

\* a container whose scalars are all 1
AllOnes(container) == \A i \in DOMAIN container : container[i] = 1

\* CiphertextConformanceParams, CiphertextListConformanceParams
ConformanceParams(sizes, metadata) ==
    { [ ct_params       |-> [ lwe_size |-> size, ciphertext_modulus |-> modulus ],
        degree          |-> md.degree,
        noise_level     |-> md.noise_level,
        message_modulus |-> md.message_modulus,
        carry_modulus   |-> md.carry_modulus,
        pbs_order       |-> md.pbs_order ] :
        size \in sizes, modulus \in CiphertextModuli, md \in metadata }

ListConformanceParams ==
    { [ ct_list_params  |-> [ lwe_size |-> size, ciphertext_modulus |-> modulus,
                              lwe_ciphertext_count |-> count ],
        degree          |-> md.degree,
        noise_level     |-> md.noise_level,
        message_modulus |-> md.message_modulus,
        carry_modulus   |-> md.carry_modulus,
        pbs_order       |-> md.pbs_order ] :
        size \in 2..MaxListLweSize, modulus \in CiphertextModuli,
        count \in 1..MaxListCount, md \in ListMetadata }

\* the objects and the parameters is_conformant is asked about
ConformanceQuestions ==
    { [ kind |-> "Ciphertext", self |-> c, param |-> p ] :
        c \in { Decompress(x) : x \in { y \in CompressedCiphertexts :
                                            y.ct.seed = 1 /\ y.ct.body = 1 } },
        p \in ConformanceParams(2..MaxListLweSize, ListMetadata) }
    \cup
    { [ kind |-> "CompressedCiphertext", self |-> c, param |-> p ] :
        c \in { x \in CompressedCiphertexts : x.ct.seed = 1 /\ x.ct.body = 1 },
        p \in ConformanceParams(2..MaxListLweSize, ListMetadata) }
    \cup
    { [ kind |-> "CompactCiphertextList", self |-> c, param |-> p ] :
        c \in { x \in CompactCiphertextLists :
                   AllOnes(x.ct_list.mask) /\ AllOnes(x.ct_list.bodies) },
        p \in ListConformanceParams }

\* self.is_conformant(&param)
IsConformant(kind, self, param) ==
    CASE kind = "Ciphertext" -> CiphertextIsConformant(self, param)
      [] kind = "CompressedCiphertext" -> CompressedCiphertextIsConformant(self, param)
      [] kind = "CompactCiphertextList" -> CompactCiphertextListIsConformant(self, param)

IsConformantAct ==
    /\ confcall' = [confcall EXCEPT
                      !.op = "is_conformant",
                      !.result = IsConformant(confcall.kind, confcall.self, confcall.param)]
    /\ UNCHANGED <<server_key, ct, ct_result, last, misuse, degcall, shcall, ncall,
                   clonecall, listcall, sercall, bootstrapper, bcall>>

InitConformant ==
    /\ IdleEngine
    /\ degcall = NoDegCall
    /\ shcall = NoShiftCall
    /\ ncall = NoNoiseCall
    /\ clonecall = NoCloneCall
    /\ listcall = NoListCall
    /\ \E q \in ConformanceQuestions :
         confcall = [ op |-> "none", kind |-> q.kind, self |-> q.self, pre |-> q.self,
                      param |-> q.param, result |-> FALSE ]
    /\ sercall = NoSerCall
    /\ bootstrapper = NoBootstrapper
    /\ bcall = NoBootCall

NextConformant == IsConformantAct

SpecConformant == InitConformant /\ [][NextConformant]_vars

\* the LWE data of the object asked about matches the LWE part of the parameters
LweDataConformant ==
    CASE confcall.kind = "Ciphertext" ->
            LweCiphertextIsConformant(confcall.self.ct, confcall.param.ct_params)
      [] confcall.kind = "CompressedCiphertext" ->
            SeededLweCiphertextIsConformant(confcall.self.ct, confcall.param.ct_params)
      [] confcall.kind = "CompactCiphertextList" ->
            LweCompactCiphertextListIsConformant(confcall.self.ct_list,
                                                 confcall.param.ct_list_params)

\* C21: is_conformant on Ciphertext, CompressedCiphertext and
\* CompactCiphertextList is true exactly when the LWE data is conformant
\* and message modulus, carry modulus, PBS order, degree and noise level
\* each equal the expected parameter (a smaller degree or noise level than
\* declared is not conformant), and it leaves the object as it was.
C21_ConformantIffAllEqual ==
    confcall.op = "is_conformant" =>
        /\ confcall.result <=> (LweDataConformant /\ SameMetadata(confcall.self, confcall.param))
        /\ (\/ confcall.self.degree < confcall.param.degree
            \/ confcall.self.noise_level < confcall.param.noise_level) => ~confcall.result
        /\ confcall.self = confcall.pre

\* a ciphertext that differs from the parameters only by a smaller degree
C21_Witness ==
    /\ confcall.op = "is_conformant"
    /\ confcall.kind = "Ciphertext"
    /\ LweDataConformant
    /\ confcall.self.degree < confcall.param.degree
    /\ confcall.self.noise_level = confcall.param.noise_level
    /\ confcall.self.message_modulus = confcall.param.message_modulus
    /\ confcall.self.carry_modulus = confcall.param.carry_modulus
    /\ confcall.self.pbs_order = confcall.param.pbs_order
    /\ ~confcall.result

----------------------------------------------------------------------------
(* boolean/engine/bootstrapping.rs: Serialize and Deserialize for ServerKey  *)

\* Result<T, E>
Ok(value) == [ ok |-> TRUE, value |-> value ]
Err(error) == [ ok |-> FALSE, value |-> error ]

\* the content of a bootstrapping key or of a key switching key
KeyData == UNION { [1..n -> 0..MaxByte] : n \in 1..MaxKeyLen }

\* boolean ServerKey
BooleanServerKeys ==
    { [ bootstrapping_key |-> bsk, key_switching_key |-> ksk ] :
        bsk \in KeyData, ksk \in KeyData }

\* bincode::serialize: the length, then the content
BincodeSerialize(key) == <<Len(key)>> \o key

\* bincode::deserialize of a slice: the length, then that many bytes; fewer
\* bytes than announced is a decoding error
BincodeDeserialize(bytes) ==
    IF bytes = <<>>
    THEN Err("UnexpectedEof")
    ELSE IF Len(bytes) - 1 < bytes[1]
         THEN Err("UnexpectedEof")
         ELSE Ok(SubSeq(bytes, 2, 1 + bytes[1]))

\* #[derive(Serialize)] SerializableServerKey: bootstrapping_key, then
\* key_switching_key, each a byte vector with its length
SerializableServerKeySerialize(thing) ==
    BincodeSerialize(thing.bootstrapping_key) \o BincodeSerialize(thing.key_switching_key)

\* #[derive(Deserialize)] SerializableServerKey
SerializableServerKeyDeserialize(bytes) ==
    LET first == BincodeDeserialize(bytes)
    IN IF ~first.ok
       THEN first
       ELSE LET rest   == SubSeq(bytes, 2 + Len(first.value), Len(bytes))
                second == BincodeDeserialize(rest)
            IN IF ~second.ok
               THEN second
               ELSE Ok([ bootstrapping_key |-> first.value,
                         key_switching_key |-> second.value ])

\* impl Serialize for ServerKey
ServerKeySerialize(self) ==
    LET key_switching_key == BincodeSerialize(self.key_switching_key)
        bootstrapping_key == BincodeSerialize(self.bootstrapping_key)
    IN SerializableServerKeySerialize(
           [ key_switching_key |-> key_switching_key,
             bootstrapping_key |-> bootstrapping_key ])

\* impl Deserialize for ServerKey
ServerKeyDeserializeSwapped(bytes) ==
    LET thing == SerializableServerKeyDeserialize(bytes)
    IN IF ~thing.ok
       THEN thing
       ELSE LET key_switching_key == BincodeDeserialize(thing.value.bootstrapping_key)
                bootstrapping_key == BincodeDeserialize(thing.value.key_switching_key)
            IN IF ~key_switching_key.ok
               THEN key_switching_key
               ELSE IF ~bootstrapping_key.ok
                    THEN bootstrapping_key
                    ELSE Ok([ bootstrapping_key |-> bootstrapping_key.value,
                              key_switching_key |-> key_switching_key.value ])
ServerKeyDeserialize(bytes) ==
    LET thing == SerializableServerKeyDeserialize(bytes)
    IN IF ~thing.ok
       THEN thing
       ELSE LET key_switching_key == BincodeDeserialize(thing.value.key_switching_key)
                bootstrapping_key == BincodeDeserialize(thing.value.bootstrapping_key)
            IN IF ~key_switching_key.ok
               THEN key_switching_key
               ELSE IF ~bootstrapping_key.ok
                    THEN bootstrapping_key
                    ELSE Ok([ bootstrapping_key |-> bootstrapping_key.value,
                              key_switching_key |-> key_switching_key.value ])

\* a sequence without its last element
DropLast(bytes) == SubSeq(bytes, 1, Len(bytes) - 1)

\* what can happen to a serialized key before it is deserialized: nothing,
\* the record cut to its first n bytes, or one inner blob cut by a byte
\* inside an otherwise well-formed record
Damages ==
    { [ kind |-> "intact", keep |-> 0 ],
      [ kind |-> "bootstrapping_key blob", keep |-> 0 ],
      [ kind |-> "key_switching_key blob", keep |-> 0 ] }
    \cup { [ kind |-> "truncated", keep |-> n ] : n \in 0..(2 * MaxKeyLen + 3) }

Damaged(key, damage) ==
    LET bytes == ServerKeySerialize(key)
        thing == SerializableServerKeyDeserialize(bytes).value
    IN CASE damage.kind = "intact" -> bytes
         [] damage.kind = "truncated" -> SubSeq(bytes, 1, damage.keep)
         [] damage.kind = "bootstrapping_key blob" ->
                SerializableServerKeySerialize(
                    [thing EXCEPT !.bootstrapping_key = DropLast(@)])
         [] damage.kind = "key_switching_key blob" ->
                SerializableServerKeySerialize(
                    [thing EXCEPT !.key_switching_key = DropLast(@)])

\* server_key.serialize(..)
SerializeAct ==
    /\ sercall.op = "none"
    /\ sercall' = [sercall EXCEPT !.op = "serialize",
                                  !.bytes = Damaged(sercall.key, sercall.damage)]
    /\ UNCHANGED <<server_key, ct, ct_result, last, misuse, degcall, shcall, ncall,
                   clonecall, listcall, confcall, bootstrapper, bcall>>

\* ServerKey::deserialize(..)
DeserializeAct ==
    /\ sercall.op = "serialize"
    /\ sercall' = [sercall EXCEPT !.op = "deserialize",
                                  !.result = ServerKeyDeserialize(sercall.bytes)]
    /\ UNCHANGED <<server_key, ct, ct_result, last, misuse, degcall, shcall, ncall,
                   clonecall, listcall, confcall, bootstrapper, bcall>>

InitSerialize ==
    /\ IdleEngine
    /\ degcall = NoDegCall
    /\ shcall = NoShiftCall
    /\ ncall = NoNoiseCall
    /\ clonecall = NoCloneCall
    /\ listcall = NoListCall
    /\ confcall = NoConfCall
    /\ \E k \in BooleanServerKeys, d \in Damages :
         /\ d.kind = "truncated" => d.keep < Len(ServerKeySerialize(k))
         /\ sercall = [ op |-> "none", key |-> k, damage |-> d, bytes |-> <<>>,
                        result |-> Err("none") ]
    /\ bootstrapper = NoBootstrapper
    /\ bcall = NoBootCall

NextSerialize ==
    \/ SerializeAct
    \/ DeserializeAct

SpecSerialize == InitSerialize /\ [][NextSerialize]_vars

\* the outer record of the bytes decodes, and so does each of its blobs
OuterDecodes == SerializableServerKeyDeserialize(sercall.bytes).ok
BlobDecodes(field) ==
    /\ OuterDecodes
    /\ BincodeDeserialize(SerializableServerKeyDeserialize(sercall.bytes).value[field]).ok

\* C22: deserialize(serialize(k)) is a ServerKey whose bootstrapping_key and
\* key_switching_key are byte for byte those of k, never swapped; when the
\* outer record or either inner blob fails to decode, deserialize returns
\* a decoding error and no ServerKey.
C22_SerializeRoundTrip ==
    sercall.op = "deserialize" =>
        /\ sercall.damage.kind = "intact" =>
              /\ sercall.bytes = ServerKeySerialize(sercall.key)
              /\ sercall.result.ok
              /\ sercall.result.value.bootstrapping_key = sercall.key.bootstrapping_key
              /\ sercall.result.value.key_switching_key = sercall.key.key_switching_key
              /\ BincodeSerialize(sercall.result.value.bootstrapping_key)
                    = BincodeSerialize(sercall.key.bootstrapping_key)
              /\ BincodeSerialize(sercall.result.value.key_switching_key)
                    = BincodeSerialize(sercall.key.key_switching_key)
        /\ (\/ ~OuterDecodes
            \/ ~BlobDecodes("bootstrapping_key")
            \/ ~BlobDecodes("key_switching_key")) =>
              /\ ~sercall.result.ok
              /\ sercall.result.value = "UnexpectedEof"
        /\ sercall.damage.kind # "intact" => ~sercall.result.ok

\* a round trip of a key whose two parts differ
C22_Witness ==
    /\ sercall.op = "deserialize"
    /\ sercall.damage.kind = "intact"
    /\ sercall.key.bootstrapping_key # sercall.key.key_switching_key
    /\ Len(sercall.key.bootstrapping_key) # Len(sercall.key.key_switching_key)
    /\ sercall.result.ok
    /\ sercall.result.value = sercall.key

----------------------------------------------------------------------------
(* boolean/engine/bootstrapping.rs: Memory and Bootstrapper                  *)

\* the Bootstrappers of the model, each with a history of its own
Bootstrappers == {1, 2}

\* boolean ServerKeys of two parameter sets: the bootstrapping key takes LWE
\* size input_lwe_dimension + 1 to (glwe_size - 1) * polynomial_size + 1,
\* the key switching key takes it back
BooleanKeys ==
    { [ bootstrapping_key |-> [ input_lwe_dimension |-> 1, glwe_size |-> 2,
                                polynomial_size |-> 2, seed |-> 1 ],
        key_switching_key |-> [ input_key_lwe_dimension |-> 2,
                                output_key_lwe_dimension |-> 1, seed |-> 2 ] ],
      [ bootstrapping_key |-> [ input_lwe_dimension |-> 1, glwe_size |-> 2,
                                polynomial_size |-> 1, seed |-> 0 ],
        key_switching_key |-> [ input_key_lwe_dimension |-> 1,
                                output_key_lwe_dimension |-> 1, seed |-> 1 ] ] }

\* bootstrapping_key.output_lwe_dimension()
OutputLweDimension(bsk) == (bsk.glwe_size - 1) * bsk.polynomial_size

\* the LWE ciphertexts handed to the engine
BooleanInputs == UNION { [1..n -> 0..MaxBoolValue] : n \in {2, 3} }

\* the scalars the bootstrap and the keyswitch write
BoolValueModulus == MaxBoolValue + 1

RECURSIVE SumSeq(_)
SumSeq(s) == IF s = <<>> THEN 0 ELSE Head(s) + SumSeq(Tail(s))

\* a call that panicked, a call that returned Ok(value)
Panicked(trace) == [ status |-> "panic", value |-> <<>>, container |-> "none", trace |-> trace ]
Returned(value, container, trace) ==
    [ status |-> "Ok", value |-> value, container |-> container, trace |-> trace ]

\* Memory::as_buffers: the buffer after the call and the index ranges of the
\* two views
AsBuffersRestOfBuffer(buffer, boolean_key) ==
    LET bsk == boolean_key.bootstrapping_key
        num_elem_in_accumulator == bsk.glwe_size * bsk.polynomial_size
        num_elem_in_lwe == OutputLweDimension(bsk) + 1
        total_elem_needed == num_elem_in_accumulator + num_elem_in_lwe
        resized == IF Len(buffer) < total_elem_needed
                   THEN buffer \o [i \in 1..(total_elem_needed - Len(buffer)) |-> 0]
                   ELSE buffer
        mask_len == (bsk.glwe_size - 1) * bsk.polynomial_size
    IN [ buffer |-> [ i \in DOMAIN resized |->
                        IF i <= mask_len THEN 0
                        ELSE IF i <= num_elem_in_accumulator THEN PLAINTEXT_TRUE
                        ELSE resized[i] ],
         accumulator |-> [ first |-> 1, last |-> num_elem_in_accumulator ],
         lwe |-> [ first |-> num_elem_in_accumulator + 1, last |-> Len(resized) ] ]
AsBuffersExactResize(buffer, boolean_key) ==
    LET bsk == boolean_key.bootstrapping_key
        num_elem_in_accumulator == bsk.glwe_size * bsk.polynomial_size
        num_elem_in_lwe == OutputLweDimension(bsk) + 1
        total_elem_needed == num_elem_in_accumulator + num_elem_in_lwe
        resized == IF Len(buffer) < total_elem_needed
                   THEN buffer \o [i \in 1..(total_elem_needed - Len(buffer)) |-> 0]
                   ELSE SubSeq(buffer, 1, total_elem_needed)
        mask_len == (bsk.glwe_size - 1) * bsk.polynomial_size
    IN [ buffer |-> [ i \in DOMAIN resized |->
                        IF i <= mask_len THEN 0
                        ELSE IF i <= num_elem_in_accumulator THEN PLAINTEXT_TRUE
                        ELSE resized[i] ],
         accumulator |-> [ first |-> 1, last |-> num_elem_in_accumulator ],
         lwe |-> [ first |-> num_elem_in_accumulator + 1, last |-> total_elem_needed ] ]
AsBuffersStale(buffer, boolean_key) ==
    LET bsk == boolean_key.bootstrapping_key
        num_elem_in_accumulator == bsk.glwe_size * bsk.polynomial_size
        num_elem_in_lwe == OutputLweDimension(bsk) + 1
        total_elem_needed == num_elem_in_accumulator + num_elem_in_lwe
        resized == IF Len(buffer) < total_elem_needed
                   THEN buffer \o [i \in 1..(total_elem_needed - Len(buffer)) |-> 0]
                   ELSE buffer
    IN [ buffer |-> resized,
         accumulator |-> [ first |-> 1, last |-> num_elem_in_accumulator ],
         lwe |-> [ first |-> num_elem_in_accumulator + 1, last |-> total_elem_needed ] ]
AsBuffers(buffer, boolean_key) ==
    LET bsk == boolean_key.bootstrapping_key
        num_elem_in_accumulator == bsk.glwe_size * bsk.polynomial_size
        num_elem_in_lwe == OutputLweDimension(bsk) + 1
        total_elem_needed == num_elem_in_accumulator + num_elem_in_lwe
        \* self.buffer.resize(total_elem_needed, 0u32) when too short
        resized == IF Len(buffer) < total_elem_needed
                   THEN buffer \o [i \in 1..(total_elem_needed - Len(buffer)) |-> 0]
                   ELSE buffer
        \* all_elements: the whole buffer, or &mut self.buffer[..total_elem_needed]
        all_elements_len == IF Len(buffer) < total_elem_needed
                            THEN Len(resized)
                            ELSE total_elem_needed
        mask_len == (bsk.glwe_size - 1) * bsk.polynomial_size
    IN [ buffer |-> [ i \in DOMAIN resized |->
                        IF i <= mask_len THEN 0
                        ELSE IF i <= num_elem_in_accumulator THEN PLAINTEXT_TRUE
                        ELSE resized[i] ],
         accumulator |-> [ first |-> 1, last |-> num_elem_in_accumulator ],
         lwe |-> [ first |-> num_elem_in_accumulator + 1, last |-> all_elements_len ] ]

\* what the accumulator holds beyond the test polynomial as_buffers writes
RECURSIVE AccumulatorDefects(_, _, _)
AccumulatorDefects(accumulator, bsk, i) ==
    IF i > Len(accumulator) THEN 0
    ELSE (IF accumulator[i] = (IF i <= (bsk.glwe_size - 1) * bsk.polynomial_size
                               THEN 0 ELSE PLAINTEXT_TRUE)
          THEN 0
          ELSE 1 + (accumulator[i] % BoolValueModulus))
         + AccumulatorDefects(accumulator, bsk, i + 1)

\* programmable_bootstrap_lwe_ciphertext_mem_optimized: every scalar of the
\* output is written, from the input, the accumulator and the key
ProgrammableBootstrap(input, output_len, accumulator, bsk) ==
    [ j \in 1..output_len |->
        (SumSeq(input) + bsk.seed + j + AccumulatorDefects(accumulator, bsk, 1))
            % BoolValueModulus ]

\* keyswitch_lwe_ciphertext: every scalar of the output is written, from
\* the input and the key
KeyswitchLweCiphertext(ksk, input, output_len) ==
    [ j \in 1..output_len |-> (2 * SumSeq(input) + ksk.seed + j) % BoolValueModulus ]

\* the size assertions of the two primitives
BootstrapSizesMatch(input, output_len, bsk) ==
    /\ Len(input) = bsk.input_lwe_dimension + 1
    /\ output_len = OutputLweDimension(bsk) + 1
KeyswitchSizesMatch(ksk, input, output_len) ==
    /\ Len(input) = ksk.input_key_lwe_dimension + 1
    /\ output_len = ksk.output_key_lwe_dimension + 1

\* the scratch bytes a bootstrap with this key needs
BootstrapScratch(bsk) == bsk.glwe_size * bsk.polynomial_size

\* ComputationBuffers::resize: grows, never shrinks
ComputationBuffersResize(size, required) == IF required > size THEN required ELSE size

\* a sequence with the scalars of another written from index first on
WriteAt(buffer, first, scalars) ==
    [ i \in DOMAIN buffer |->
        IF i >= first /\ i < first + Len(scalars) THEN scalars[i - first + 1] ELSE buffer[i] ]

\* Bootstrapper::new
NewBootstrapper(seed) ==
    [ memory |-> <<>>, encryption_generator |-> seed, computation_buffers |-> 0 ]

\* Bootstrapper::bootstrap: the Bootstrapper after the call and what it returned
Bootstrap(self, input, boolean_key) ==
    LET buffers == AsBuffers(self.memory, boolean_key)
        fourier_bsk == boolean_key.bootstrapping_key
        accumulator == SubSeq(buffers.buffer, buffers.accumulator.first, buffers.accumulator.last)
        output_len == buffers.lwe.last - buffers.lwe.first + 1
        prepared == [self EXCEPT
                       !.memory = buffers.buffer,
                       !.computation_buffers =
                           ComputationBuffersResize(@, BootstrapScratch(fourier_bsk))]
    IN IF ~BootstrapSizesMatch(input, output_len, fourier_bsk)
       THEN [ self |-> prepared, result |-> Panicked(<<"as_buffers", "programmable_bootstrap">>) ]
       ELSE LET after == [prepared EXCEPT
                            !.memory = WriteAt(@, buffers.lwe.first,
                                ProgrammableBootstrap(input, output_len, accumulator, fourier_bsk))]
            IN [ self |-> after,
                 result |-> Returned(SubSeq(after.memory, buffers.lwe.first, buffers.lwe.last),
                                     "fresh", <<"as_buffers", "programmable_bootstrap">>) ]

\* Bootstrapper::keyswitch
Keyswitch(self, input, boolean_key) ==
    LET output_len == boolean_key.bootstrapping_key.input_lwe_dimension + 1
    IN IF ~KeyswitchSizesMatch(boolean_key.key_switching_key, input, output_len)
       THEN [ self |-> self, result |-> Panicked(<<"keyswitch">>) ]
       ELSE [ self |-> self,
              result |-> Returned(
                  KeyswitchLweCiphertext(boolean_key.key_switching_key, input, output_len),
                  "fresh", <<"keyswitch">>) ]

\* Bootstrapper::bootstrap_keyswitch
BootstrapKeyswitchNoKeyswitch(self, ciphertext, boolean_key) ==
    [ self |-> Bootstrap(self, ciphertext, boolean_key).self,
      result |-> [Bootstrap(self, ciphertext, boolean_key).result EXCEPT !.container = "caller"] ]
BootstrapKeyswitch(self, ciphertext, boolean_key) ==
    LET buffers == AsBuffers(self.memory, boolean_key)
        fourier_bsk == boolean_key.bootstrapping_key
        accumulator == SubSeq(buffers.buffer, buffers.accumulator.first, buffers.accumulator.last)
        output_len == buffers.lwe.last - buffers.lwe.first + 1
        prepared == [self EXCEPT
                       !.memory = buffers.buffer,
                       !.computation_buffers =
                           ComputationBuffersResize(@, BootstrapScratch(fourier_bsk))]
    IN IF ~BootstrapSizesMatch(ciphertext, output_len, fourier_bsk)
       THEN [ self |-> prepared, result |-> Panicked(<<"as_buffers", "programmable_bootstrap">>) ]
       ELSE LET after == [prepared EXCEPT
                            !.memory = WriteAt(@, buffers.lwe.first,
                                ProgrammableBootstrap(ciphertext, output_len, accumulator,
                                                      fourier_bsk))]
                buffer_lwe_after_pbs == SubSeq(after.memory, buffers.lwe.first, buffers.lwe.last)
                trace == <<"as_buffers", "programmable_bootstrap", "keyswitch">>
            IN IF ~KeyswitchSizesMatch(boolean_key.key_switching_key, buffer_lwe_after_pbs,
                                       Len(ciphertext))
               THEN [ self |-> after, result |-> Panicked(trace) ]
               ELSE [ self |-> after,
                      result |-> Returned(
                          KeyswitchLweCiphertext(boolean_key.key_switching_key,
                                                 buffer_lwe_after_pbs, Len(ciphertext)),
                          "caller", trace) ]

\* the record of a call of Bootstrapper e
Called(e, op, key, result, views) ==
    [bcall EXCEPT !.call[e] = [ op |-> op, key |-> key, result |-> result, views |-> views,
                                 len_before |-> Len(bootstrapper[e].memory) ]]

NoViews == [ accumulator |-> [ first |-> 1, last |-> 0 ], lwe |-> [ first |-> 1, last |-> 0 ] ]
ViewsOf(buffers) == [ accumulator |-> buffers.accumulator, lwe |-> buffers.lwe ]

\* self.memory.as_buffers(server_key)
AsBuffersAct ==
    /\ \E e \in Bootstrappers, key \in BooleanKeys :
         LET buffers == AsBuffers(bootstrapper[e].memory, key)
         IN /\ bootstrapper' = [bootstrapper EXCEPT ![e].memory = buffers.buffer]
            /\ bcall' = Called(e, "as_buffers", key, Returned(<<>>, "none", <<"as_buffers">>),
                               ViewsOf(buffers))
    /\ UNCHANGED <<server_key, ct, ct_result, last, misuse, degcall, shcall, ncall,
                   clonecall, listcall, confcall, sercall>>

\* bootstrapper.bootstrap(&input, &server_key)
BootstrapAct ==
    /\ \E e \in Bootstrappers, key \in BooleanKeys :
         LET r == Bootstrap(bootstrapper[e], bcall.input, key)
         IN /\ bootstrapper' = [bootstrapper EXCEPT ![e] = r.self]
            /\ bcall' = Called(e, "bootstrap", key, r.result,
                               ViewsOf(AsBuffers(bootstrapper[e].memory, key)))
    /\ UNCHANGED <<server_key, ct, ct_result, last, misuse, degcall, shcall, ncall,
                   clonecall, listcall, confcall, sercall>>

\* bootstrapper.keyswitch(&input, &server_key)
KeyswitchAct ==
    /\ \E e \in Bootstrappers, key \in BooleanKeys :
         LET r == Keyswitch(bootstrapper[e], bcall.input, key)
         IN /\ bootstrapper' = [bootstrapper EXCEPT ![e] = r.self]
            /\ bcall' = Called(e, "keyswitch", key, r.result, NoViews)
    /\ UNCHANGED <<server_key, ct, ct_result, last, misuse, degcall, shcall, ncall,
                   clonecall, listcall, confcall, sercall>>

\* bootstrapper.bootstrap_keyswitch(ciphertext, &server_key)
BootstrapKeyswitchAct ==
    /\ \E e \in Bootstrappers, key \in BooleanKeys :
         LET r == BootstrapKeyswitch(bootstrapper[e], bcall.input, key)
         IN /\ bootstrapper' = [bootstrapper EXCEPT ![e] = r.self]
            /\ bcall' = Called(e, "bootstrap_keyswitch", key, r.result,
                               ViewsOf(AsBuffers(bootstrapper[e].memory, key)))
    /\ UNCHANGED <<server_key, ct, ct_result, last, misuse, degcall, shcall, ncall,
                   clonecall, listcall, confcall, sercall>>

NoBootstrapperCall ==
    [ op |-> "none", key |-> <<>>, result |-> Returned(<<>>, "none", <<>>), views |-> NoViews,
      len_before |-> 0 ]

InitBoolean ==
    /\ IdleEngine
    /\ degcall = NoDegCall
    /\ shcall = NoShiftCall
    /\ ncall = NoNoiseCall
    /\ clonecall = NoCloneCall
    /\ listcall = NoListCall
    /\ confcall = NoConfCall
    /\ sercall = NoSerCall
    /\ bootstrapper = [ e \in Bootstrappers |-> NewBootstrapper(e) ]
    /\ \E input \in BooleanInputs :
         bcall = [ input |-> input, call |-> [ e \in Bootstrappers |-> NoBootstrapperCall ] ]

NextBoolean ==
    \/ AsBuffersAct
    \/ BootstrapAct
    \/ KeyswitchAct
    \/ BootstrapKeyswitchAct

SpecBoolean == InitBoolean /\ [][NextBoolean]_vars

\* the calls that go through Memory::as_buffers
BufferOps == { "as_buffers", "bootstrap", "bootstrap_keyswitch" }
EvaluationOps == { "bootstrap", "keyswitch", "bootstrap_keyswitch" }

\* what a Bootstrapper that was never used returns for the call
FreshResult(op, input, key) ==
    CASE op = "bootstrap" -> Bootstrap(NewBootstrapper(0), input, key).result
      [] op = "keyswitch" -> Keyswitch(NewBootstrapper(0), input, key).result
      [] op = "bootstrap_keyswitch" -> BootstrapKeyswitch(NewBootstrapper(0), input, key).result

\* C23: bootstrap, keyswitch and bootstrap_keyswitch consume no randomness
\* and their output is a function of the input ciphertext and the server
\* key only: two Bootstrappers with different call histories (stale memory,
\* generator state) return the same for the same input and key, in any
\* interleaving of their calls.
C23_EvaluationDeterministic ==
    /\ \A e \in Bootstrappers : bootstrapper[e].encryption_generator = e
    /\ \A e \in Bootstrappers :
         bcall.call[e].op \in EvaluationOps =>
            bcall.call[e].result = FreshResult(bcall.call[e].op, bcall.input, bcall.call[e].key)
    /\ \A e1, e2 \in Bootstrappers :
         (/\ bcall.call[e1].op \in EvaluationOps
          /\ bcall.call[e1].op = bcall.call[e2].op
          /\ bcall.call[e1].key = bcall.call[e2].key) =>
            bcall.call[e1].result = bcall.call[e2].result

\* the same bootstrap by two Bootstrappers whose memories differ
C23_Witness ==
    /\ bcall.call[1].op = "bootstrap"
    /\ bcall.call[2].op = "bootstrap"
    /\ bcall.call[1].key = bcall.call[2].key
    /\ bcall.call[1].result.status = "Ok"
    /\ Len(bootstrapper[1].memory) # Len(bootstrapper[2].memory)
    /\ bcall.call[1].len_before > 0
    /\ bcall.call[1].result = bcall.call[2].result

\* C24: bootstrap_keyswitch runs the bootstrap before the keyswitch and
\* returns keyswitch(bootstrap(ct, key), key) as Ciphertext::Encrypted in
\* the caller's container, of the input's size
\* bootstrapping_key.input_lwe_dimension + 1; it never returns an error.
C24_BootstrapThenKeyswitch ==
    \A e \in Bootstrappers :
        LET c == bcall.call[e]
        IN c.op = "bootstrap_keyswitch" =>
            /\ c.result.status \in {"Ok", "panic"}
            /\ Len(bcall.input) = c.key.bootstrapping_key.input_lwe_dimension + 1 =>
                 LET pbs == Bootstrap(NewBootstrapper(0), bcall.input, c.key).result
                     ks  == Keyswitch(NewBootstrapper(0), pbs.value, c.key).result
                 IN /\ c.result.status = "Ok"
                    /\ pbs.status = "Ok"
                    /\ ks.status = "Ok"
                    /\ c.result.value = ks.value
                    /\ c.result.container = "caller"
                    /\ Len(c.result.value) = Len(bcall.input)
                    /\ Len(c.result.value) = c.key.bootstrapping_key.input_lwe_dimension + 1
                    /\ c.result.trace = <<"as_buffers", "programmable_bootstrap", "keyswitch">>

C24_Witness ==
    /\ bcall.call[2].op = "bootstrap_keyswitch"
    /\ bcall.call[2].result.status = "Ok"
    /\ Len(bcall.call[2].result.value) = 2
    /\ bcall.call[2].result.value # bcall.input
    /\ bcall.call[2].len_before > 0

\* C25: as_buffers returns two views over disjoint ranges of the buffer: an
\* accumulator of exactly glwe_size * polynomial_size scalars whose mask is
\* all 0 and whose body is all PLAINTEXT_TRUE, written again on every call
\* whatever the buffer held, followed by an LWE view of exactly
\* output_lwe_dimension + 1 scalars, also when the buffer is larger.
C25_AsBuffersViews ==
    \A e \in Bootstrappers :
        LET c == bcall.call[e]
            memory == bootstrapper[e].memory
        IN c.op \in BufferOps =>
            LET bsk == c.key.bootstrapping_key
                acc == c.views.accumulator
                lwe == c.views.lwe
            IN /\ acc.first = 1
               /\ acc.last - acc.first + 1 = bsk.glwe_size * bsk.polynomial_size
               /\ lwe.first = acc.last + 1
               /\ lwe.last - lwe.first + 1 = OutputLweDimension(bsk) + 1
               /\ lwe.last <= Len(memory)
               /\ (acc.first..acc.last) \cap (lwe.first..lwe.last) = {}
               /\ \A i \in acc.first..acc.last :
                    memory[i] = IF i <= (bsk.glwe_size - 1) * bsk.polynomial_size
                                THEN 0 ELSE PLAINTEXT_TRUE

\* as_buffers on a buffer longer than this key needs, left by another key
C25_Witness ==
    /\ bcall.call[1].op = "as_buffers"
    /\ bcall.call[1].len_before > bcall.call[1].views.lwe.last
    /\ Len(bootstrapper[1].memory) > bcall.call[1].views.lwe.last
    /\ bootstrapper[1].memory[bcall.call[1].views.accumulator.last] = PLAINTEXT_TRUE
    /\ \E i \in DOMAIN bootstrapper[1].memory :
         /\ i > bcall.call[1].views.lwe.last
         /\ bootstrapper[1].memory[i] # 0

\* C26: over any sequence of calls with keys of varying dimensions the
\* buffer never gets shorter; after a call that goes through as_buffers it
\* holds at least glwe_size * polynomial_size + output_lwe_dimension + 1
\* scalars for that call's key; it grows only when it was strictly shorter
\* than that sum, and then to exactly that sum.
C26_BufferGrowsOnlyWhenShort ==
    \A e \in Bootstrappers :
        LET c == bcall.call[e]
            len == Len(bootstrapper[e].memory)
        IN /\ len >= c.len_before
           /\ c.op \in BufferOps =>
                LET bsk == c.key.bootstrapping_key
                    total == bsk.glwe_size * bsk.polynomial_size + OutputLweDimension(bsk) + 1
                IN /\ len >= total
                   /\ len # c.len_before => (c.len_before < total /\ len = total)
                   /\ c.len_before < total => len = total
           /\ c.op \notin BufferOps => len = c.len_before

\* a buffer that held a smaller key's scalars and grew to this key's sum
C26_Witness ==
    /\ bcall.call[2].op = "as_buffers"
    /\ bcall.call[2].len_before > 0
    /\ Len(bootstrapper[2].memory) > bcall.call[2].len_before
    /\ Len(bootstrapper[2].memory) = bcall.call[2].views.lwe.last

----------------------------------------------------------------------------
SmartOps == {"smart_scalar_add", "smart_scalar_add_assign"}

\* C27: on the refresh path of smart_scalar_add_assign (is_scalar_add_possible
\* false) the ciphertext ends with degree message_modulus - 1 and noise level
\* NOMINAL, whatever its degree and noise level before and whatever the
\* scalar; the scalar is not added to the degree.
C27_RefreshDegreeAndNoise ==
    (last.op \in SmartOps /\ ~LastPossible) =>
        /\ LastOk
        /\ Produced.degree = server_key.message_modulus - 1
        /\ Produced.noise_level = NOMINAL
        /\ Produced.degree # last.pre.degree + last.scalar

\* a refresh of a ciphertext of noise level 2 and a degree above
\* message_modulus - 1, by the largest scalar
C27_Witness ==
    /\ last.op = "smart_scalar_add_assign"
    /\ ~LastPossible
    /\ last.scalar = U8Max
    /\ last.pre.noise_level = 2
    /\ last.pre.degree > server_key.message_modulus - 1
    /\ ct.degree = server_key.message_modulus - 1
    /\ ct.noise_level = NOMINAL

\* C28: in unchecked_scalar_add_assign the shift scalar * delta is computed
\* in u64 without overflow for every scalar and every parameter set, so the
\* call neither panics nor wraps, and only the LWE body changes: mask, noise
\* level, message modulus, carry modulus and PBS order are as before.
C28_ShiftNeverOverflows ==
    last.op \in UncheckedOps =>
        /\ last.scalar * Delta(server_key) < U64Modulus
        /\ last.outcome = "Ok"
        /\ LastOk =>
             /\ Produced.mask = last.pre.mask
             /\ Produced.noise_level = last.pre.noise_level
             /\ Produced.message_modulus = last.pre.message_modulus
             /\ Produced.carry_modulus = last.pre.carry_modulus
             /\ Produced.pbs_order = last.pre.pbs_order

\* C28, the part that holds: whenever the multiplication fits in u64 the
\* call returns Ok, and whenever the call returns Ok only the body and the
\* degree differ
C28_OnlyBodyChangesWhenNoOverflow ==
    last.op \in UncheckedOps =>
        /\ last.scalar * Delta(server_key) < U64Modulus => last.outcome = "Ok"
        /\ LastOk =>
             /\ Produced.mask = last.pre.mask
             /\ Produced.noise_level = last.pre.noise_level
             /\ Produced.message_modulus = last.pre.message_modulus
             /\ Produced.carry_modulus = last.pre.carry_modulus
             /\ Produced.pbs_order = last.pre.pbs_order
             /\ Produced.body = (last.pre.body + last.scalar * Delta(server_key)) % U64Modulus

\* an unchecked_scalar_add_assign whose scalar * delta does not fit in u64
C28_Witness ==
    /\ last.op = "unchecked_scalar_add_assign"
    /\ last.scalar * Delta(server_key) >= U64Modulus
    /\ last.outcome = "panic"

====
